---- MODULE Spec2Model ----
(***************************************************************************)
(* A model of the FERC EQR report downloader (src/ferc/main.py).           *)
(*                                                                         *)
(* Spec        FercDownloader.download_transaction_data: the orchestration *)
(*             of page load, tab navigation, filter steps, seller          *)
(*             discovery and the per-seller submission loop.  Every        *)
(*             browser command either returns or raises; which one is a    *)
(*             nondeterministic choice of the environment.                 *)
(* SpecSellers the seller-discovery step alone, over every page the        *)
(*             bounds allow.                                               *)
(* SpecWait    FercDownloader._wait_for_download against a download        *)
(*             directory other processes write to.                         *)
(* SpecActive  FercDownloader.wait_for_element_to_be_active against an     *)
(*             element whose state changes between polls.                  *)
(* SpecPostback FercDownloader.wait_for_postback against a page whose      *)
(*             update cycles end while the wait runs.                      *)
(* SpecPeriod  FercDownloader.determine_report_period over pairs of dates. *)
(* SpecCli     main(): the command line, the prompts, the session and the  *)
(*             download call, whose outcome is the environment's choice.   *)
(* SpecSession a FercDownloader object used by any client: construction,   *)
(*             downloads, close() and the cleanup of __del__.              *)
(* SpecSankey  plot_sankey (src/sankey/sankey.py) over small flow tables.  *)
(***************************************************************************)
EXTENDS Integers, Sequences, FiniteSets, TLC

VARIABLES
    pc,               \* position of download_transaction_data
    seller,           \* the requested seller argument
    sellers,          \* the working seller list (local `sellers`)
    seller_dropdown,  \* local `seller_dropdown`: "None", "byId" or "byScan"
    dropdownOpts,     \* option texts of the element seller_dropdown refers to
    idx,              \* loop index of the seller loop (0-based, as enumerate)
    success_count,    \* local `success_count`
    submit_button,    \* local `submit_button`: "None" or "set"
    shots,            \* diagnostic files written into the download directory
    tabs,             \* what each tab-navigation strategy did
    cur,              \* history of the seller iteration in progress (or last run)
    downloads,        \* how many download waits have returned True so far
    faults,           \* how many commands have raised so far in this run
    poll,             \* what the active-element poll for the seller selector gave
    scan,             \* what the scan for a 'Seller' select did: none, miss, hit
    raised,           \* the error travelling to the top-level handler
    result,           \* what download_transaction_data gave its caller
    wpc,              \* position of _wait_for_download
    dir,              \* the files in the download directory
    before_download,  \* local `before_download`
    new_files,        \* local `new_files` of the latest poll
    wresult,          \* what _wait_for_download returned
    apc,              \* position of wait_for_element_to_be_active
    elem,             \* the page's element for the locator, as it is now
    seen,             \* what the latest poll read of the element
    aresult,          \* what wait_for_element_to_be_active returned
    now,              \* time.time(), in units of the 0.5 poll interval
    start_time,       \* local `start_time` of the wait in progress
    timeout,          \* argument `timeout` of the wait in progress
    ppc,              \* position of wait_for_postback
    framework,        \* the page's Sys.WebForms.PageRequestManager: absent,
                      \* present, or present with getInstance() giving null
    flag,             \* window.wait_for_postback_complete
    handlers,         \* whether an endRequest handler setting the flag is registered
    completed,        \* local `completed` of the latest poll
    polls,            \* how many polls the wait has made
    cycleEnded,       \* whether an update cycle has ended since the call began
    presult,          \* what wait_for_postback returned
    start_date,       \* `start_date`: a date text, fields in the order typed
    end_date,         \* `end_date`
    report_period,    \* what determine_report_period returned
    mpc,              \* position of main()
    default_flag,     \* "--default" in sys.argv
    today,            \* datetime.now() of the --default branch
    authority,        \* main's local `authority`
    download_dir,     \* main's local `download_dir`
    headless,         \* main's local `headless`
    prompts,          \* the input() prompts issued so far, in order
    response,         \* the answer to the "Close browser?" prompt
    fatal,            \* what main() ended with: the fatal-error report or a crash
    session,          \* the FercDownloader object: none, ok, failed (__init__ raised)
    hasDriver,        \* hasattr(self, 'driver')
    browser,          \* the browser of the session: none, running, terminated
    closes,           \* how many times close() has been called
    closeRaised,      \* whether a call of close() has raised
    deleted,          \* whether __del__ has run
    df,               \* the flow table: a sequence of rows
    highlight_source, \* argument `highlight_source`
    highlight_target, \* argument `highlight_target`
    nodes,            \* the node labels handed to the figure
    links,            \* the links handed to the figure, one record each
    spc,              \* position of plot_sankey
    expired,          \* the steps whose self.wait.until(...) ran out of time
    by_dropdown,      \* local `by_dropdown` of the By step: None, byId, byXPath, byScan
    byOpts,           \* option texts of the By selector
    bySelected,       \* the place in it of the option the By step selected, or 0
    bpc,              \* position in the submit strategies of one seller
    selector,         \* index of the pattern of possible_selectors being tried
    pressed,          \* the controls clicked: the pattern's match list and the place in it
    dirAtClick        \* the download directory when the submit control was clicked

sellerVars == <<sellers, seller_dropdown, dropdownOpts, poll, scan>>
loopVars == <<idx, success_count, submit_button, cur, downloads>>
byVars == <<by_dropdown, byOpts, bySelected>>
mainVars == <<pc, seller, sellerVars, loopVars, shots, tabs, faults, raised, result,
              expired, byVars>>

waitVars == <<wpc, dir, before_download, new_files, wresult>>
activeVars == <<apc, elem, seen, aresult>>
clockVars == <<now, start_time, timeout>>

postVars == <<ppc, framework, flag, handlers, completed, polls, cycleEnded, presult>>
periodVars == <<start_date, end_date, report_period>>
cliVars == <<mpc, default_flag, today, authority, download_dir, headless, prompts,
             response, fatal>>
sessionVars == <<session, hasDriver, browser, closes, closeRaised, deleted>>
sankeyVars == <<df, highlight_source, highlight_target, nodes, links, spc>>
submitVars == <<bpc, selector, pressed>>
laterVars == <<postVars, periodVars, cliVars, sessionVars, sankeyVars, submitVars,
               dirAtClick>>

vars == <<mainVars, waitVars, activeVars, clockVars, laterVars>>

\* What the steps of each operation leave alone.  The steps of
\* download_transaction_data that neither use self.wait nor are the By step
\* leave `expired` and the By selector alone as well.
aside == <<waitVars, activeVars, clockVars, laterVars>>
notMain == <<aside, expired, byVars>>
notWait == <<mainVars, activeVars, laterVars>>
notActive == <<mainVars, waitVars, laterVars>>
notPostback == <<mainVars, waitVars, activeVars, periodVars, cliVars, sessionVars,
                 sankeyVars, submitVars, dirAtClick>>
notPeriod == <<mainVars, waitVars, activeVars, clockVars, postVars, cliVars,
               sessionVars, sankeyVars, submitVars, dirAtClick>>
downloadVars == <<pc, sellerVars, loopVars, shots, tabs, faults, raised, expired, byVars>>
notCli == <<downloadVars, waitVars, activeVars, clockVars, postVars, report_period,
            sankeyVars, submitVars, dirAtClick>>
notSession == <<downloadVars, seller, waitVars, activeVars, clockVars, postVars,
                periodVars, cliVars, sankeyVars, submitVars, dirAtClick>>
notSankey == <<mainVars, waitVars, activeVars, clockVars, postVars, periodVars,
               cliVars, sessionVars, submitVars, dirAtClick>>

-----------------------------------------------------------------------------
(* Bounds and input alphabets                                              *)

\* Longest option list a selector of the page carries.
MaxOptions == 2

\* How many commands may raise in one run.
MaxFaults == 3

\* Longest timeout a wait is called with, in poll intervals.
MaxTimeout == 3

\* The calendar years dates are taken from: FirstYear .. FirstYear + YearSpan.
FirstYear == 2023
YearSpan == 2

\* How many times a client calls close() on one session.
MaxCloses == 3

\* How many invalid dates are typed in one interactive run.
MaxRetries == 2

\* Most rows a flow table has.
MaxRows == 3

\* Option texts: two seller names and a blank one (whitespace only, which
\* strip() empties).
OptionTexts == {"S1", "S2", " "}

\* The seller argument: the "all" sentinel, a name the page can list, and a
\* name no page lists.
SellerArgs == {"all", "S1", "S3"}

RECURSIVE SeqsUpTo(_, _)
SeqsUpTo(S, n) ==
    IF n = 0 THEN {<<>>}
    ELSE LET shorter == SeqsUpTo(S, n - 1)
         IN  shorter \cup {Append(s, e) : s \in {t \in shorter : Len(t) = n - 1}, e \in S}

OptionLists == SeqsUpTo(OptionTexts, MaxOptions)

-----------------------------------------------------------------------------
(* Helpers                                                                 *)

\* str.strip() on an option text: whitespace-only texts become empty.
Strip(t) == IF t = " " THEN "" ELSE t

\* [option.text for option in select.options if option.text.strip()]
RECURSIVE NonBlank(_)
NonBlank(opts) ==
    IF opts = <<>> THEN <<>>
    ELSE IF Strip(Head(opts)) = "" THEN NonBlank(Tail(opts))
         ELSE <<Head(opts)>> \o NonBlank(Tail(opts))

Range(s) == {s[i] : i \in 1..Len(s)}

Digits == <<"0", "1", "2", "3", "4", "5", "6", "7", "8", "9">>

\* f"after_submit_{idx}.png" and f"seller_error_{idx}.png"
IndexedShot(prefix, i) == prefix \o Digits[i + 1] \o ".png"

\* The state of one seller's iteration before it starts.
FreshIter == [selected |-> "none", clicks |-> 0, scriptClicks |-> 0,
              forms |-> 0, wait |-> "none", caught |-> FALSE]

-----------------------------------------------------------------------------
(* download_transaction_data: page load and tab navigation                 *)

\* A command raises: one more of the run's faults.
Raises ==
    /\ faults < MaxFaults
    /\ faults' = faults + 1

\* Control goes on to `next` with nothing raised.
Go(next) ==
    /\ pc' = next
    /\ UNCHANGED <<faults, raised>>

\* A command raises inside a try whose handler starts at `handler`.
Caught(handler) ==
    /\ Raises
    /\ pc' = handler
    /\ UNCHANGED raised

\* A command of step `step` raises outside every inner try: its error reaches
\* the `except Exception` of the whole operation.
Escape(step) ==
    /\ Raises
    /\ pc' = "final"
    /\ raised' = step

\* The steps that look their element up with self.wait, the
\* WebDriverWait(self.driver, 30) of __init__.
UntilSteps == {"tab_id", "report_type", "start_date", "end_date", "export"}

\* self.wait.until(...) whose condition stays false for the 30 seconds: it
\* raises TimeoutException, which the try of the step catches.
Until(step) == expired \cup {step}

\* self.driver.get(...)
LoadPage ==
    /\ pc = "load"
    /\ \/ Go("initial_shot")
       \/ Escape("load")
    /\ UNCHANGED <<notMain, seller, sellerVars, loopVars, shots, tabs, result>>

\* A save_screenshot outside any inner try: it writes `name` and goes on to
\* `next`, or raises to the top-level handler.
BareShot(here, name, next) ==
    /\ pc = here
    /\ \/ /\ shots' = shots \cup {name}
          /\ Go(next)
       \/ /\ Escape(here)
          /\ UNCHANGED shots
    /\ UNCHANGED <<notMain, seller, sellerVars, loopVars, tabs, result>>

InitialShot == BareShot("initial_shot", "initial_page.png", "tab_id")

\* The two wait.until(element_to_be_clickable(By.ID ...)) / click() pairs:
\* both click, or a command raises, or a wait runs out of time.
TabById ==
    /\ pc = "tab_id"
    /\ \/ /\ tabs' = [tabs EXCEPT !.byId = "clicked"]
          /\ Go("after_tab_shot")
          /\ UNCHANGED expired
       \/ /\ tabs' = [tabs EXCEPT !.byId = "failed"]
          /\ Caught("tab_link")
          /\ UNCHANGED expired
       \/ /\ tabs' = [tabs EXCEPT !.byId = "failed"]
          /\ Caught("tab_link")
          /\ expired' = Until("tab_id")
    /\ UNCHANGED <<aside, byVars, seller, sellerVars, loopVars, shots, result>>

\* The link-text approach of the handler: it clicks the first match of each
\* tab, finds no match (and clicks nothing, raising nothing), or raises; the
\* script approach follows in every case.
TabByLinkText ==
    /\ pc = "tab_link"
    /\ \/ /\ \E out \in {"clicked", "nomatch"} :
                tabs' = [tabs EXCEPT !.byLinkText = out]
          /\ Go("tab_js")
       \/ /\ tabs' = [tabs EXCEPT !.byLinkText = "failed"]
          /\ Caught("tab_js")
    /\ UNCHANGED <<notMain, seller, sellerVars, loopVars, shots, result>>

\* The two execute_script(getElementById(...).click()) calls.
TabByScript ==
    /\ pc = "tab_js"
    /\ \/ /\ tabs' = [tabs EXCEPT !.byScript = "clicked"]
          /\ Go("after_tab_shot")
       \/ /\ tabs' = [tabs EXCEPT !.byScript = "failed"]
          /\ Caught("tab_fatal")
    /\ UNCHANGED <<notMain, seller, sellerVars, loopVars, shots, result>>

\* The handler of the script approach: tab_error.png, page_source.html, the
\* anchor listing, then raise Exception("Unable to navigate ...").  A command
\* of the handler that raises reaches the top-level handler with its own error.
\* TabFatal going on to the filter steps instead of raising.
TabFatalContinues ==
    /\ pc = "tab_fatal"
    /\ shots' = shots \cup {"tab_error.png", "page_source.html"}
    /\ Go("after_tab_shot")
    /\ UNCHANGED <<notMain, seller, sellerVars, loopVars, tabs, result>>

TabFatal ==
    /\ pc = "tab_fatal"
    /\ \/ /\ UNCHANGED shots
          /\ Escape("tab_fatal")
       \/ /\ shots' = shots \cup {"tab_error.png"}
          /\ Escape("tab_fatal")
       \/ /\ shots' = shots \cup {"tab_error.png", "page_source.html"}
          /\ Escape("tab_fatal")
       \/ /\ shots' = shots \cup {"tab_error.png", "page_source.html"}
          /\ pc' = "final"
          /\ raised' = "Unable to navigate to Filing Inquiries tab"
          /\ UNCHANGED faults
    /\ UNCHANGED <<notMain, seller, sellerVars, loopVars, tabs, result>>

AfterTabShot == BareShot("after_tab_shot", "after_tab_click.png", "report_type")

-----------------------------------------------------------------------------
(* download_transaction_data: the filter steps                             *)

\* The try body of a filter step.  Everything in it, its closing screenshot
\* included, is inside the step's own try: it completes (writing okShots) or
\* some command of it raises and the step's handler runs.
FilterTry(here, okShots, handler, next) ==
    /\ pc = here
    /\ \/ /\ shots' = shots \cup okShots
          /\ Go(next)
          /\ UNCHANGED expired
       \/ /\ UNCHANGED shots
          /\ Caught(handler)
          /\ UNCHANGED expired
       \/ /\ here \in UntilSteps
          /\ UNCHANGED shots
          /\ Caught(handler)
          /\ expired' = Until(here)
    /\ UNCHANGED <<aside, byVars, seller, sellerVars, loopVars, tabs, result>>

\* The except body of a filter step.  Its commands are outside any inner try:
\* the error screenshot, then (when the handler scans the page) find_elements,
\* then (when it has one) the closing screenshot.  Each returns or raises to
\* the top-level handler.
FilterHandler(here, errShot, scans, recShots, next) ==
    /\ pc = here
    /\ \/ /\ UNCHANGED shots
          /\ Escape(here)
       \/ /\ scans
          /\ shots' = shots \cup {errShot}
          /\ Escape(here)
       \/ /\ recShots # {}
          /\ shots' = shots \cup {errShot}
          /\ Escape(here)
       \/ /\ shots' = shots \cup {errShot} \cup recShots
          /\ Go(next)
    /\ UNCHANGED <<notMain, seller, sellerVars, loopVars, tabs, result>>

ReportType ==
    FilterTry("report_type", {"after_report_type.png"}, "report_type_err", "by")

ReportTypeRecovery ==
    FilterHandler("report_type_err", "report_type_error.png", TRUE,
                  {"after_report_type_recovery.png"}, "by")

ByDropdown ==
    FilterTry("by", {"after_by_selection.png"}, "by_err", "period")

ByDropdownError ==
    FilterHandler("by_err", "by_dropdown_error.png", TRUE, {}, "period")

ReportPeriod ==
    FilterTry("period", {"after_report_period.png"}, "period_err", "authority")

ReportPeriodError ==
    FilterHandler("period_err", "report_period_error.png", FALSE, {}, "authority")

BalancingAuthority ==
    FilterTry("authority", {"after_authority.png"}, "authority_err", "start_date")

BalancingAuthorityError ==
    FilterHandler("authority_err", "authority_error.png", FALSE, {}, "start_date")

StartDate ==
    FilterTry("start_date", {}, "start_date_err", "end_date")

StartDateRecovery ==
    FilterHandler("start_date_err", "start_date_error.png", TRUE, {}, "end_date")

EndDate ==
    FilterTry("end_date", {}, "end_date_err", "sellers")

EndDateRecovery ==
    FilterHandler("end_date_err", "end_date_error.png", TRUE, {}, "sellers")

\* ExportFormat entering the seller loop directly, without before_submit.png.
ExportFormatSkipsShot ==
    FilterTry("export", {}, "export_err", "loop")

ExportFormat ==
    FilterTry("export", {}, "export_err", "before_submit")

\* ExportFormatRecovery writing its screenshot under a name of its own.
ExportFormatRecoveryRenamed ==
    FilterHandler("export_err", "export_error.png", TRUE, {}, "before_submit")

ExportFormatRecovery ==
    FilterHandler("export_err", "export_format_error.png", TRUE, {}, "before_submit")

-----------------------------------------------------------------------------
(* download_transaction_data: seller discovery                             *)

\* A select element the scan of the handler meets: whether its id contains
\* 'Seller', whether reading its options raises, and its option texts.
OtherSelect == [sellerId |-> FALSE, bad |-> FALSE, opts |-> <<>>]
BadSelect == [sellerId |-> TRUE, bad |-> TRUE, opts |-> <<>>]
GoodSelect(o) == [sellerId |-> TRUE, bad |-> FALSE, opts |-> o]

SelectElems(Opts) == {OtherSelect, BadSelect} \cup {GoodSelect(o) : o \in Opts}

\* The pages the scan is checked on: no select, one, or two.
SelectLists(Opts) ==
    {<<>>} \cup {<<e>> : e \in SelectElems(Opts)}
           \cup {<<e, f>> : e \in SelectElems(Opts), f \in SelectElems(Opts)}

\* PrimarySellers without the `if option.text.strip()` filter.
PrimarySellersKeepsBlanks(sel, opts) ==
    IF sel = "all" THEN opts ELSE <<sel>>

\* `if seller == "all": sellers = [non-blank options] else: sellers = [seller]`
PrimarySellers(sel, opts) ==
    IF sel = "all" THEN NonBlank(opts) ELSE <<sel>>

\* `sellers = [seller] if seller != "all" else ["Default Seller"]`
DefaultSellers(sel) ==
    IF sel # "all" THEN <<sel>> ELSE <<"Default Seller">>

\* The scan loop of the handler from element i on: the first select whose id
\* contains 'Seller' and whose options can be read decides; for a single
\* seller missing from it, options[0] is taken, and an empty option list
\* makes that an IndexError the bare except swallows, so the loop goes on.
RECURSIVE ScanSellers(_, _, _)
ScanSellers(sel, elems, i) ==
    IF i > Len(elems) THEN [sellers |-> <<>>, hit |-> 0]
    ELSE LET e == elems[i]
             options == NonBlank(e.opts)
         IN  IF ~e.sellerId \/ e.bad THEN ScanSellers(sel, elems, i + 1)
             ELSE IF sel = "all" THEN [sellers |-> options, hit |-> i]
             ELSE IF sel \in Range(options) THEN [sellers |-> <<sel>>, hit |-> i]
             ELSE IF options = <<>> THEN ScanSellers(sel, elems, i + 1)
             ELSE [sellers |-> <<options[1]>>, hit |-> i]

\* The branch of the try body taken when the poll returned no element.
PollAbsent ==
    /\ poll' = "absent"
    /\ seller_dropdown' = "None"
    /\ dropdownOpts' = <<>>
    /\ sellers' = DefaultSellers(seller)
    /\ Go("export")

\* The try body: the poll by the known id (which never raises), then Select()
\* and the option reads, which may raise.
SellerDropdown(Opts) ==
    /\ pc = "sellers"
    /\ \/ PollAbsent
       \/ \E opts \in Opts :
             /\ poll' = "found"
             /\ seller_dropdown' = "byId"
             /\ dropdownOpts' = opts
             /\ \/ /\ sellers' = PrimarySellers(seller, opts)
                   /\ Go("export")
                \/ /\ UNCHANGED sellers
                   /\ Caught("sellers_err")
    /\ UNCHANGED <<notMain, seller, loopVars, shots, tabs, scan, result>>

\* The except body: seller_dropdown_error.png, find_elements, the scan, and
\* the default when the scan left the list empty.
SellerDropdownRecovery(Lists) ==
    /\ pc = "sellers_err"
    /\ \/ /\ Escape("sellers_err")
          /\ UNCHANGED <<shots, sellers, seller_dropdown, dropdownOpts, scan>>
       \/ /\ shots' = shots \cup {"seller_dropdown_error.png"}
          /\ Escape("sellers_err")
          /\ UNCHANGED <<sellers, seller_dropdown, dropdownOpts, scan>>
       \/ \E elems \in Lists :
             LET r == ScanSellers(seller, elems, 1)
             IN  /\ shots' = shots \cup {"seller_dropdown_error.png"}
                 /\ scan' = IF r.hit = 0 THEN "miss" ELSE "hit"
                 /\ seller_dropdown' = IF r.hit = 0 THEN seller_dropdown ELSE "byScan"
                 /\ dropdownOpts' = IF r.hit = 0 THEN dropdownOpts ELSE elems[r.hit].opts
                 /\ sellers' = IF r.sellers = <<>> THEN DefaultSellers(seller)
                                ELSE r.sellers
                 /\ Go("export")
    /\ UNCHANGED <<notMain, seller, loopVars, tabs, poll, result>>

BeforeSubmitShot == BareShot("before_submit", "before_submit.png", "loop")

-----------------------------------------------------------------------------
(* download_transaction_data: the seller loop                              *)

current_seller == sellers[idx + 1]

\* SelectFailed without its `continue`: the iteration goes on to the submit
\* strategies.
SelectFailedFallsThrough ==
    /\ cur' = [FreshIter EXCEPT !.selected = "failed"]
    /\ UNCHANGED idx
    /\ pc' = "submit_a"
    /\ UNCHANGED raised

\* The handler of a failed selection: log it and `continue`.
SelectFailed ==
    /\ cur' = [FreshIter EXCEPT !.selected = "failed"]
    /\ idx' = idx + 1
    /\ pc' = "loop"
    /\ UNCHANGED raised

\* Select(seller_dropdown).select_by_visible_text(current_seller) in its own
\* try: it raises when there is no handle (Select(None)) or no such option
\* (NoSuchElementException), and may raise for any other reason.
SelectSeller ==
    /\ pc = "loop"
    /\ idx < Len(sellers)
    /\ LET selectable == /\ seller_dropdown # "None"
                         /\ current_seller \in Range(dropdownOpts)
       IN  \/ /\ selectable
              /\ cur' = [FreshIter EXCEPT !.selected = "ok"]
              /\ Go("submit_a")
              /\ UNCHANGED idx
           \/ /\ selectable
              /\ Raises
              /\ SelectFailed
           \/ /\ ~selectable
              /\ UNCHANGED faults
              /\ SelectFailed
    /\ UNCHANGED <<notMain, seller, sellerVars, success_count, submit_button, downloads,
                   shots, tabs, result>>

\* Strategy (a): btnSubmitOptional by id, clicked when it is enabled and not
\* disabled-styled; a disabled button or an error leaves submit_button None.
SubmitPrimary ==
    /\ pc = "submit_a"
    /\ \/ /\ submit_button' = "set"
          /\ cur' = [cur EXCEPT !.clicks = @ + 1]
          /\ Go("wait")
       \/ /\ submit_button' = "None"
          /\ UNCHANGED cur
          /\ \/ Go("submit_b")
             \/ Caught("submit_b")
    /\ UNCHANGED <<notMain, seller, sellerVars, idx, success_count, downloads, shots,
                   tabs, result>>

\* Strategy (b): the seven XPath patterns.  A pattern's pick is clicked and
\* the loop breaks ("clicked"); or some pattern matched but its pick was not
\* enabled, so nothing is clicked and submit_button stays set ("matched"); or
\* no pattern matched ("nomatch"); or a command raised an error other than
\* NoSuchElementException, after a click or before any, which the handler of
\* the alternatives takes.
SubmitPatterns ==
    /\ pc = "submit_b"
    /\ \/ /\ submit_button' = "set"
          /\ cur' = [cur EXCEPT !.clicks = @ + 1]
          /\ Go("wait")
       \/ /\ submit_button' = "set"
          /\ UNCHANGED cur
          /\ Go("wait")
       \/ /\ submit_button' = "None"
          /\ UNCHANGED cur
          /\ Go("submit_c")
       \/ /\ submit_button' = "set"
          /\ cur' = [cur EXCEPT !.clicks = @ + 1]
          /\ Caught("submit_d")
       \/ /\ submit_button' = "None"
          /\ UNCHANGED cur
          /\ Caught("submit_d")
    /\ UNCHANGED <<notMain, seller, sellerVars, idx, success_count, downloads, shots,
                   tabs, result>>

\* Strategy (c): the page script that clicks a submit-typed control.
SubmitScript ==
    /\ pc = "submit_c"
    /\ \/ /\ cur' = [cur EXCEPT !.scriptClicks = @ + 1]
          /\ Go("wait")
       \/ /\ UNCHANGED cur
          /\ Caught("submit_d")
    /\ UNCHANGED <<notMain, seller, sellerVars, idx, success_count, submit_button,
                   downloads, shots, tabs, result>>

\* Strategy (d), the handler of (b) and (c): the listing of all buttons, whose
\* find_elements and get_attribute are unguarded, a click on the first likely
\* one (guarded), and then, in every case, the guarded forms[0].submit().
SubmitEnumerate ==
    /\ pc = "submit_d"
    /\ \/ /\ UNCHANGED cur
          /\ Caught("seller_err")
       \/ \E clicked \in BOOLEAN :
             /\ \/ /\ cur' = [cur EXCEPT !.clicks = @ + (IF clicked THEN 1 ELSE 0),
                                         !.forms = @ + 1]
                   /\ Go("wait")
                \/ /\ cur' = [cur EXCEPT !.clicks = @ + (IF clicked THEN 1 ELSE 0)]
                   /\ Caught("wait")
    /\ UNCHANGED <<notMain, seller, sellerVars, idx, success_count, submit_button,
                   downloads, shots, tabs, result>>

\* AwaitDownload counting the seller whatever the wait returned.
AwaitDownloadCountsAll ==
    /\ pc = "wait"
    /\ \/ /\ cur' = [cur EXCEPT !.wait = "True"]
          /\ downloads' = downloads + 1
          /\ UNCHANGED shots
       \/ /\ cur' = [cur EXCEPT !.wait = "False"]
          /\ shots' = shots \cup {IndexedShot("after_submit_", idx)}
          /\ UNCHANGED downloads
    /\ success_count' = success_count + 1
    /\ idx' = idx + 1
    /\ Go("loop")
    /\ UNCHANGED <<notMain, seller, sellerVars, submit_button, tabs, result>>

\* download_successful = self._wait_for_download(45), the counter, and the
\* after_submit screenshot of the False branch.
AwaitDownload ==
    /\ pc = "wait"
    /\ \/ /\ cur' = [cur EXCEPT !.wait = "True"]
          /\ downloads' = downloads + 1
          /\ success_count' = success_count + 1
          /\ idx' = idx + 1
          /\ Go("loop")
          /\ UNCHANGED shots
       \/ /\ cur' = [cur EXCEPT !.wait = "False"]
          /\ shots' = shots \cup {IndexedShot("after_submit_", idx)}
          /\ idx' = idx + 1
          /\ Go("loop")
          /\ UNCHANGED <<success_count, downloads>>
       \/ /\ cur' = [cur EXCEPT !.wait = "False"]
          /\ Caught("seller_err")
          /\ UNCHANGED <<shots, idx, success_count, downloads>>
       \/ /\ cur' = [cur EXCEPT !.wait = "raised"]
          /\ Caught("seller_err")
          /\ UNCHANGED <<shots, idx, success_count, downloads>>
    /\ UNCHANGED <<notMain, seller, sellerVars, submit_button, tabs, result>>

\* The per-seller `except Exception`: seller_error_{idx}.png, which is itself
\* outside any inner try.
SellerError ==
    /\ pc = "seller_err"
    /\ \/ /\ shots' = shots \cup {IndexedShot("seller_error_", idx)}
          /\ cur' = [cur EXCEPT !.caught = TRUE]
          /\ idx' = idx + 1
          /\ Go("loop")
       \/ /\ Escape("seller_err")
          /\ UNCHANGED <<shots, cur, idx>>
    /\ UNCHANGED <<notMain, seller, sellerVars, success_count, submit_button, downloads,
                   tabs, result>>

\* `return success_count > 0`
Summary ==
    /\ pc = "loop"
    /\ idx >= Len(sellers)
    /\ result' = IF success_count > 0 THEN "True" ELSE "False"
    /\ pc' = "done"
    /\ UNCHANGED <<notMain, seller, sellerVars, loopVars, shots, tabs, faults, raised>>

\* The top-level `except Exception`: final_error.png, outside any try, then
\* `return False`; when the screenshot raises, that error leaves the method.
FinalError ==
    /\ pc = "final"
    /\ \/ /\ shots' = shots \cup {"final_error.png"}
          /\ result' = "False"
          /\ UNCHANGED faults
       \/ /\ Raises
          /\ result' = "raised"
          /\ UNCHANGED shots
    /\ pc' = "done"
    /\ UNCHANGED <<notMain, seller, sellerVars, loopVars, tabs, raised>>

-----------------------------------------------------------------------------
(* _wait_for_download                                                      *)

\* A file name is the sequence of its dot-separated parts, the dots kept:
\* <<"a", ".tmp", ".csv">> is a.tmp.csv.
FileNames == { <<"a", ".csv">>, <<"a", ".crdownload">>, <<"b", ".tmp">>,
               <<"c", ".tmp", ".csv">> }

\* f.endswith(suffix), for a suffix that is one dotted part.
EndsWith(f, suffix) == f[Len(f)] = suffix

\* [f for f in new_files if f.endswith('.crdownload') or f.endswith('.tmp')]
TempDownloads(files) ==
    {f \in files : EndsWith(f, ".crdownload") \/ EndsWith(f, ".tmp")}

\* DownloadDetected without its look at the partial files: `if new_files`.
DownloadDetectedAnyNew(files) ==
    files # {}

\* `if new_files and not temp_downloads`
DownloadDetected(files) ==
    files # {} /\ TempDownloads(files) = {}

\* WaitStart taking its directory listing for the first seller only.
WaitStartOnce ==
    /\ wpc = "start"
    /\ before_download' = IF idx = 0 THEN dir ELSE before_download
    /\ start_time' = now
    /\ wpc' = "test"
    /\ UNCHANGED <<notWait, dir, new_files, wresult, now, timeout>>

\* before_download = set(os.listdir(...)); start_time = time.time()
WaitStart ==
    /\ wpc = "start"
    /\ before_download' = dir
    /\ start_time' = now
    /\ wpc' = "test"
    /\ UNCHANGED <<notWait, dir, new_files, wresult, now, timeout>>

\* `while time.time() - start_time < timeout`, and `return False` after it.
WaitTest ==
    /\ wpc = "test"
    /\ IF now - start_time < timeout
       THEN /\ wpc' = "poll"
            /\ UNCHANGED wresult
       ELSE /\ wpc' = "done"
            /\ wresult' = "False"
    /\ UNCHANGED <<notWait, dir, before_download, new_files, clockVars>>

\* One pass of the loop body up to the return.
WaitPoll ==
    /\ wpc = "poll"
    /\ new_files' = dir \ before_download
    /\ IF DownloadDetected(new_files')
       THEN /\ wpc' = "done"
            /\ wresult' = "True"
       ELSE /\ wpc' = "sleep"
            /\ UNCHANGED wresult
    /\ UNCHANGED <<notWait, dir, before_download, clockVars>>

\* WaitSleep with a clock that stands still.
WaitSleepStandsStill ==
    /\ wpc = "sleep"
    /\ wpc' = "test"
    /\ UNCHANGED <<notWait, dir, before_download, new_files, wresult, clockVars>>

\* time.sleep(0.5): at least one poll interval passes.
WaitSleep ==
    /\ wpc = "sleep"
    /\ \E d \in 1..2 : now' = now + d
    /\ wpc' = "test"
    /\ UNCHANGED <<notWait, dir, before_download, new_files, wresult,
                   start_time, timeout>>

\* The browser and other processes write to the directory while the wait
\* runs: a file appears or goes away, or a finished download is renamed.
DirChanges ==
    /\ wpc \in {"start", "test", "poll", "sleep"}
    /\ \/ \E f \in FileNames \ dir : dir' = dir \cup {f}
       \/ \E f \in dir : dir' = dir \ {f}
       \/ /\ <<"a", ".crdownload">> \in dir
          /\ dir' = (dir \ {<<"a", ".crdownload">>}) \cup {<<"a", ".csv">>}
    /\ UNCHANGED <<notWait, wpc, before_download, new_files, wresult, clockVars>>

\* The click of a submit strategy, followed by self._wait_for_download(45):
\* the browser starts the download at the click, the wait starts after it.
SubmitClick ==
    /\ wpc = "click"
    /\ dirAtClick' = dir
    /\ wpc' = "start"
    /\ UNCHANGED <<mainVars, dir, before_download, new_files, wresult, activeVars,
                   clockVars, postVars, periodVars, cliVars, sessionVars, sankeyVars,
                   submitVars>>

-----------------------------------------------------------------------------
(* The seller loop with its own files in the download directory            *)

\* after_submit_{idx}.png and seller_error_{idx}.png as directory entries.
ShotFile(prefix, i) == <<prefix \o Digits[i + 1], ".png">>

\* The files written before the loop that every run leaves behind.
EarlierShots == {<<"initial_page", ".png">>, <<"before_submit", ".png">>}

notLoopWait == <<pc, seller, sellerVars, submit_button, cur, downloads, shots, tabs,
                 faults, raised, result, expired, byVars, before_download, new_files,
                 activeVars, clockVars, laterVars>>

\* An iteration up to its call of self._wait_for_download(45).
BeginWait ==
    /\ wpc = "between"
    /\ idx < MaxOptions
    /\ wpc' = "start"
    /\ wresult' = "none"
    /\ UNCHANGED <<notLoopWait, idx, success_count, dir>>

\* An iteration that raises before its wait: the per-seller handler writes
\* seller_error_{idx}.png and the loop goes on.
SellerFails ==
    /\ wpc = "between"
    /\ idx < MaxOptions
    /\ dir' = dir \cup {ShotFile("seller_error_", idx)}
    /\ idx' = idx + 1
    /\ UNCHANGED <<notLoopWait, wpc, wresult, success_count>>

\* The iteration after its wait returned: the counter on True, on False
\* after_submit_{idx}.png, and seller_error_{idx}.png when that screenshot
\* raises.
AfterWait ==
    /\ wpc = "done"
    /\ \/ /\ wresult = "True"
          /\ success_count' = success_count + 1
          /\ UNCHANGED dir
       \/ /\ wresult = "False"
          /\ \E name \in {"after_submit_", "seller_error_"} :
                dir' = dir \cup {ShotFile(name, idx)}
          /\ UNCHANGED success_count
    /\ idx' = idx + 1
    /\ wpc' = "between"
    /\ UNCHANGED <<notLoopWait, wresult>>

\* The browser writes into the directory while a wait runs: a file appears,
\* or the download in progress is renamed to its final name.  Nothing is
\* removed.
FileLands ==
    /\ wpc \in {"start", "test", "poll", "sleep"}
    /\ \/ \E f \in FileNames \ dir : dir' = dir \cup {f}
       \/ /\ <<"a", ".crdownload">> \in dir
          /\ dir' = (dir \ {<<"a", ".crdownload">>}) \cup {<<"a", ".csv">>}
    /\ UNCHANGED <<notWait, wpc, before_download, new_files, wresult, clockVars>>

-----------------------------------------------------------------------------
(* wait_for_element_to_be_active                                           *)

\* The class attribute, as the sequence of its class names.
ClassValues == { <<>>, <<"btn">>, <<"btn", "aspNetDisabled">> }

\* What the page holds for the locator: no element, or an element with its
\* displayed and enabled flags and its class attribute.
ElemStates ==
    {[present |-> FALSE, displayed |-> FALSE, enabled |-> FALSE, class |-> <<>>]}
    \cup [present : {TRUE}, displayed : BOOLEAN, enabled : BOOLEAN,
          class : ClassValues]

NoElement == [present |-> FALSE, displayed |-> FALSE, enabled |-> FALSE,
              class |-> <<>>]

\* `"aspNetDisabled" in element.get_attribute("class")`
DisabledStyled(e) == "aspNetDisabled" \in Range(e.class)

\* PollElement with `except NoSuchElementException` in place of the bare
\* except: a stale element's error leaves the method.
PollElementNarrowExcept(e, stale) ==
    IF ~e.present THEN "retry"
    ELSE IF stale THEN "raise"
    ELSE IF e.displayed /\ e.enabled /\ ~DisabledStyled(e) THEN "return"
    ELSE "retry"

\* What one pass of the try block does with the element e.  find_element
\* raises when there is no element, and any command raises when the element
\* went stale; the bare `except: pass` turns both into another round.
PollElement(e, stale) ==
    IF ~e.present \/ stale THEN "retry"
    ELSE IF e.displayed /\ e.enabled /\ ~DisabledStyled(e) THEN "return"
    ELSE "retry"

\* start_time = time.time()
ActiveStart ==
    /\ apc = "start"
    /\ start_time' = now
    /\ apc' = "test"
    /\ UNCHANGED <<notActive, elem, seen, aresult, now, timeout>>

\* `while time.time() - start_time < timeout`, and `return None` after it.
ActiveTest ==
    /\ apc = "test"
    /\ IF now - start_time < timeout
       THEN /\ apc' = "poll"
            /\ UNCHANGED aresult
       ELSE /\ apc' = "done"
            /\ aresult' = "None"
    /\ UNCHANGED <<notActive, elem, seen, clockVars>>

\* The try block of the loop body.
ActivePoll ==
    /\ apc = "poll"
    /\ \E stale \in BOOLEAN :
          LET out == PollElement(elem, stale)
          IN  /\ seen' = [read |-> ~stale, state |-> elem]
              /\ apc' = CASE out = "return" -> "done"
                          [] out = "retry" -> "sleep"
                          [] OTHER -> "done"
              /\ aresult' = CASE out = "return" -> "element"
                              [] out = "retry" -> aresult
                              [] OTHER -> "raised"
    /\ UNCHANGED <<notActive, elem, clockVars>>

\* time.sleep(0.5)
ActiveSleep ==
    /\ apc = "sleep"
    /\ \E d \in 1..2 : now' = now + d
    /\ apc' = "test"
    /\ UNCHANGED <<notActive, elem, seen, aresult, start_time, timeout>>

\* The page changes under the poll.
PageChanges ==
    /\ apc \in {"start", "test", "poll", "sleep"}
    /\ \E e \in ElemStates \ {elem} : elem' = e
    /\ UNCHANGED <<notActive, apc, seen, aresult, clockVars>>

-----------------------------------------------------------------------------
(* wait_for_postback                                                       *)

\* The page keeps its window object for the length of the call: the flag is
\* written by the two scripts of the call and by registered handlers only.

\* The registering script without its else branch.
RegisterScriptNoElse(fw, f) == f

\* What the registering script leaves in the flag: it is set at once when
\* Sys.WebForms.PageRequestManager is not on the page.
RegisterScript(fw, f) == IF fw = "absent" THEN "true" ELSE f

\* execute_script("window.wait_for_postback_complete = false;")
PostbackReset ==
    /\ ppc = "reset"
    /\ \/ /\ flag' = "false"
          /\ ppc' = "register"
          /\ UNCHANGED presult
       \/ /\ ppc' = "done"
          /\ presult' = "raised"
          /\ UNCHANGED flag
    /\ UNCHANGED <<notPostback, framework, handlers, completed, polls, cycleEnded,
                   clockVars>>

\* The second script: prm.add_endRequest(...) or the flag set at once; then
\* start_time = time.time().
PostbackRegister ==
    /\ ppc = "register"
    /\ \/ /\ flag' = RegisterScript(framework, flag)
          /\ handlers' = (handlers \/ framework = "present")
          /\ start_time' = now
          /\ ppc' = "test"
          /\ UNCHANGED presult
       \/ /\ ppc' = "done"
          /\ presult' = "raised"
          /\ UNCHANGED <<flag, handlers, start_time>>
    /\ UNCHANGED <<notPostback, framework, completed, polls, cycleEnded, now, timeout>>

\* `while time.time() - start_time < timeout`, and `return False` after it.
PostbackTest ==
    /\ ppc = "test"
    /\ IF now - start_time < timeout
       THEN /\ ppc' = "poll"
            /\ UNCHANGED presult
       ELSE /\ ppc' = "done"
            /\ presult' = "False"
    /\ UNCHANGED <<notPostback, framework, flag, handlers, completed, polls,
                   cycleEnded, clockVars>>

\* completed = execute_script("return ..."); `if completed: return True`.
\* An undefined flag reads as None.
PostbackPoll ==
    /\ ppc = "poll"
    /\ \/ /\ completed' = flag
          /\ polls' = polls + 1
          /\ IF flag = "true"
             THEN /\ ppc' = "done"
                  /\ presult' = "True"
             ELSE /\ ppc' = "sleep"
                  /\ UNCHANGED presult
       \/ /\ ppc' = "done"
          /\ presult' = "raised"
          /\ UNCHANGED <<completed, polls>>
    /\ UNCHANGED <<notPostback, framework, flag, handlers, cycleEnded, clockVars>>

\* time.sleep(0.5): at least one poll interval passes.
PostbackSleep ==
    /\ ppc = "sleep"
    /\ \E d \in 1..2 : now' = now + d
    /\ ppc' = "test"
    /\ UNCHANGED <<notPostback, framework, flag, handlers, completed, polls,
                   cycleEnded, presult, start_time, timeout>>

\* The page ends an update cycle while the wait runs: the registered
\* handlers run, `window.wait_for_postback_complete = true`.
EndRequest ==
    /\ ppc \in {"reset", "register", "test", "poll", "sleep"}
    /\ framework = "present"
    /\ cycleEnded' = TRUE
    /\ flag' = IF handlers THEN "true" ELSE flag
    /\ UNCHANGED <<notPostback, ppc, framework, handlers, completed, polls, presult,
                   clockVars>>

-----------------------------------------------------------------------------
(* Dates and determine_report_period                                       *)

\* A date text "MM/DD/YYYY" is the tuple of its three numbers in the order
\* they are typed; a datetime is a record.  All times of day are midnight.
Years == FirstYear .. (FirstYear + YearSpan)

NoDate == [ok |-> FALSE, year |-> 0, month |-> 0, day |-> 0]

IsLeap(y) == (y % 4 = 0 /\ y % 100 # 0) \/ y % 400 = 0

DaysInMonth(y, m) ==
    IF m = 2 THEN (IF IsLeap(y) THEN 29 ELSE 28)
    ELSE IF m \in {4, 6, 9, 11} THEN 30 ELSE 31

\* datetime.strptime(text, "%m/%d/%Y"): the datetime, or ValueError (ok FALSE).
Strptime(text) ==
    IF /\ Len(text) = 3
       /\ text[1] \in 1..12
       /\ text[3] \in 1..9999
       /\ text[2] \in 1..DaysInMonth(text[3], text[1])
    THEN [ok |-> TRUE, year |-> text[3], month |-> text[1], day |-> text[2]]
    ELSE NoDate

\* dt.strftime("%m/%d/%Y")
Strftime(dt) == <<dt.month, dt.day, dt.year>>

RECURSIVE DaysBeforeYear(_)
DaysBeforeYear(y) ==
    IF y <= FirstYear THEN 0
    ELSE DaysBeforeYear(y - 1) + (IF IsLeap(y - 1) THEN 366 ELSE 365)

RECURSIVE DaysBeforeMonth(_, _)
DaysBeforeMonth(y, m) ==
    IF m <= 1 THEN 0 ELSE DaysBeforeMonth(y, m - 1) + DaysInMonth(y, m - 1)

\* The day number of a datetime, counted from 1 January of FirstYear.
ToOrdinal(dt) == DaysBeforeYear(dt.year) + DaysBeforeMonth(dt.year, dt.month) + dt.day - 1

RECURSIVE MonthOfDay(_, _, _)
MonthOfDay(y, m, n) ==
    IF n < DaysInMonth(y, m)
    THEN [ok |-> TRUE, year |-> y, month |-> m, day |-> n + 1]
    ELSE MonthOfDay(y, m + 1, n - DaysInMonth(y, m))

RECURSIVE YearOfDay(_, _)
YearOfDay(y, n) ==
    IF n < (IF IsLeap(y) THEN 366 ELSE 365)
    THEN MonthOfDay(y, 1, n)
    ELSE YearOfDay(y + 1, n - (IF IsLeap(y) THEN 366 ELSE 365))

\* The date of a day number.
FromOrdinal(n) == YearOfDay(FirstYear, n)

\* The midpoint taken to be the start of the range.
MidPointIsStart(start_dt, end_dt) == start_dt

\* start_dt + (end_dt - start_dt) / 2: half the difference is a whole number
\* of days or that and twelve hours, so the date is the floor.
MidPoint(start_dt, end_dt) ==
    FromOrdinal(ToOrdinal(start_dt) + ((ToOrdinal(end_dt) - ToOrdinal(start_dt)) \div 2))

NoPeriod == [quarter |-> "none", year |-> 0]

\* The f-strings of the four branches: the quarter's words, then the year.
\* QuarterLabel with its boundaries one month late.
QuarterLabelLate(month, year) ==
    IF 1 <= month /\ month <= 4 THEN [quarter |-> "Q1, Jan-Mar", year |-> year]
    ELSE IF 5 <= month /\ month <= 7 THEN [quarter |-> "Q2, Apr-Jun", year |-> year]
    ELSE IF 8 <= month /\ month <= 10 THEN [quarter |-> "Q3, Jul-Sep", year |-> year]
    ELSE [quarter |-> "Q4, Oct-Dec", year |-> year]

QuarterLabel(month, year) ==
    IF 1 <= month /\ month <= 3 THEN [quarter |-> "Q1, Jan-Mar", year |-> year]
    ELSE IF 4 <= month /\ month <= 6 THEN [quarter |-> "Q2, Apr-Jun", year |-> year]
    ELSE IF 7 <= month /\ month <= 9 THEN [quarter |-> "Q3, Jul-Sep", year |-> year]
    ELSE [quarter |-> "Q4, Oct-Dec", year |-> year]

determine_report_period(sd, ed) ==
    LET mid_point == MidPoint(Strptime(sd), Strptime(ed))
    IN  QuarterLabel(mid_point.month, mid_point.year)

\* The date texts the operation is called with: the first, the fifteenth and
\* the last day of every month.
PeriodDates ==
    {<<m, d, y>> : m \in 1..12, d \in {1, 15, 28, 29, 30, 31}, y \in Years}

ValidDates(texts) == {t \in texts : Strptime(t).ok}

DeterminePeriod ==
    /\ report_period = NoPeriod
    /\ start_date # <<>>
    /\ report_period' = determine_report_period(start_date, end_date)
    /\ UNCHANGED <<notPeriod, start_date, end_date>>

-----------------------------------------------------------------------------
(* The session object: __init__, close, __del__                            *)

\* Where __init__ can end: os.makedirs raises, setup_driver raises, the
\* driver is stored and maximize_window raises, or it returns.
InitOutcomes == {"makedirs", "setup", "maximize", "ok"}

\* FercDownloader(download_dir, headless) ending in outcome o.  The driver
\* attribute is set as soon as setup_driver has returned a browser.
Construct(o) ==
    /\ session' = IF o = "ok" THEN "ok" ELSE "failed"
    /\ hasDriver' = (o \in {"maximize", "ok"})
    /\ browser' = IF o \in {"maximize", "ok"} THEN "running" ELSE "none"

\* close() without its hasattr test: self.driver of a session that has no
\* driver attribute raises AttributeError.
closeNoGuard(has, b) ==
    IF has THEN [browser |-> "terminated", raised |-> FALSE]
    ELSE [browser |-> b, raised |-> TRUE]

\* close(): `if hasattr(self, 'driver'): self.driver.quit()`.  quit() of the
\* Chrome driver ends the browser and swallows the errors of a session that
\* is already gone.
close(has, b) ==
    IF has THEN [browser |-> "terminated", raised |-> FALSE]
    ELSE [browser |-> b, raised |-> FALSE]

\* One call of close() by the program.
CloseCall ==
    /\ closes' = closes + 1
    /\ browser' = close(hasDriver, browser).browser
    /\ closeRaised' = (closeRaised \/ close(hasDriver, browser).raised)

\* __del__: close() inside try/except, run when the last reference to the
\* object goes away.
Del ==
    /\ deleted' = TRUE
    /\ CloseCall

\* What download_transaction_data can give its caller: with the browser gone
\* every command raises, the screenshot of the top-level handler included.
DownloadOutcomes(b) ==
    IF b = "running" THEN {"True", "False", "raised"} ELSE {"raised"}

SessionConstruct ==
    /\ session = "none"
    /\ \E o \in InitOutcomes :
          /\ o = "makedirs" => download_dir = "missing"
          /\ Construct(o)
    /\ UNCHANGED <<notSession, result, closes, closeRaised, deleted>>

SessionDownload ==
    /\ session = "ok"
    /\ ~deleted
    /\ result' \in DownloadOutcomes(browser)
    /\ UNCHANGED <<notSession, sessionVars>>

SessionClose ==
    /\ session = "ok"
    /\ ~deleted
    /\ closes < MaxCloses
    /\ CloseCall
    /\ UNCHANGED <<notSession, result, session, hasDriver, deleted>>

SessionDel ==
    /\ session \in {"ok", "failed"}
    /\ ~deleted
    /\ Del
    /\ UNCHANGED <<notSession, result, session, hasDriver>>

-----------------------------------------------------------------------------
(* main                                                                    *)

\* What is typed at the date prompts: two dates, and two texts that are no
\* date ("13/40/2024" and an empty line).
CliDateTexts == {<<1, 1, 2024>>, <<3, 31, 2024>>, <<13, 40, 2024>>, <<0>>}

\* The days --default is run on: the first, the tenth, the 28th and the last
\* day of every month.
Todays ==
    {[ok |-> TRUE, year |-> FirstYear + 1, month |-> m, day |-> d] :
        m \in 1..12, d \in {1, 10, 28}}
    \cup {[ok |-> TRUE, year |-> FirstYear + 1, month |-> m,
           day |-> DaysInMonth(FirstYear + 1, m)] : m \in 1..12}

\* str.lower() on the answers typed at the y/n prompts.
Lower(text) == IF text = "N" THEN "n" ELSE IF text = "Y" THEN "y" ELSE text

\* The date loops with their try/except taken away: whatever is typed is kept.
AcceptedAnything(text) == TRUE

\* The try/except of a date loop: strptime returns, `break`.
Accepted(text) == Strptime(text).ok

\* The first month of the quarter with the division applied to the month itself.
QuarterStartMonthOffByOne(month) == (month \div 3) * 3 + 1

\* ((today.month-1)//3)*3+1
QuarterStartMonth(month) == ((month - 1) \div 3) * 3 + 1

\* The outer try with a failed construction falling through to the download.
AfterConstructAlways(o) == "download"

\* Where main goes after FercDownloader(...): into the inner try, or to the
\* handler of the outer one.
AfterConstruct(o) == IF o = "ok" THEN "download" ELSE "except"

\* `if "--default" in sys.argv` and its branch.
DefaultValues ==
    /\ mpc = "argv"
    /\ default_flag
    /\ \E t \in Todays :
          /\ today' = t
          /\ start_date' = Strftime([ok |-> TRUE, year |-> t.year,
                                     month |-> QuarterStartMonth(t.month), day |-> 1])
          /\ end_date' = Strftime(t)
    /\ seller' = "all"
    /\ authority' = "CISO"
    /\ download_dir' = "cwd"
    /\ headless' = FALSE
    /\ mpc' = "construct"
    /\ UNCHANGED <<notCli, result, sessionVars, default_flag, prompts, response, fatal>>

Interactive ==
    /\ mpc = "argv"
    /\ ~default_flag
    /\ mpc' = "start"
    /\ UNCHANGED <<notCli, seller, result, sessionVars, periodVars, default_flag, today,
                   authority, download_dir, headless, prompts, response, fatal>>

\* One pass of the first `while True`.
PromptStartDate ==
    /\ mpc = "start"
    /\ \E t \in CliDateTexts :
          /\ ~Strptime(t).ok => Len(prompts) < MaxRetries
          /\ start_date' = t
          /\ mpc' = IF Accepted(t) THEN "end" ELSE "start"
    /\ prompts' = Append(prompts, "start")
    /\ UNCHANGED <<notCli, seller, result, sessionVars, end_date, default_flag, today,
                   authority, download_dir, headless, response, fatal>>

\* One pass of the second `while True`.
PromptEndDate ==
    /\ mpc = "end"
    /\ \E t \in CliDateTexts :
          /\ ~Strptime(t).ok => Len(prompts) - 1 < MaxRetries
          /\ end_date' = t
          /\ mpc' = IF Accepted(t) THEN "seller" ELSE "end"
    /\ prompts' = Append(prompts, "end")
    /\ UNCHANGED <<notCli, seller, result, sessionVars, start_date, default_flag, today,
                   authority, download_dir, headless, response, fatal>>

PromptSeller ==
    /\ mpc = "seller"
    /\ \E t \in {"", "S1"} : seller' = IF t = "" THEN "all" ELSE t
    /\ prompts' = Append(prompts, "seller")
    /\ mpc' = "authority"
    /\ UNCHANGED <<notCli, result, sessionVars, periodVars, default_flag, today,
                   authority, download_dir, headless, response, fatal>>

PromptAuthority ==
    /\ mpc = "authority"
    /\ \E t \in {"", "PJM"} : authority' = IF t = "" THEN "CISO" ELSE t
    /\ prompts' = Append(prompts, "authority")
    /\ mpc' = "dir"
    /\ UNCHANGED <<notCli, seller, result, sessionVars, periodVars, default_flag, today,
                   download_dir, headless, response, fatal>>

\* The directory prompt: os.makedirs of a directory that does not exist is
\* outside every try block.
PromptDirectory ==
    /\ mpc = "dir"
    /\ prompts' = Append(prompts, "dir")
    /\ \/ /\ download_dir' = "cwd"
          /\ mpc' = "headless"
          /\ UNCHANGED fatal
       \/ /\ download_dir' = "given"
          /\ mpc' = "headless"
          /\ UNCHANGED fatal
       \/ /\ download_dir' = "missing"
          /\ mpc' = "done"
          /\ fatal' = "crash"
    /\ UNCHANGED <<notCli, seller, result, sessionVars, periodVars, default_flag, today,
                   authority, headless, response>>

PromptHeadless ==
    /\ mpc = "headless"
    /\ \E t \in {"", "y", "Y", "n"} : headless' = (Lower(t) = "y")
    /\ prompts' = Append(prompts, "headless")
    /\ mpc' = "construct"
    /\ UNCHANGED <<notCli, seller, result, sessionVars, periodVars, default_flag, today,
                   authority, download_dir, response, fatal>>

\* downloader = FercDownloader(download_dir, headless).  The directory is
\* there by now, so os.makedirs is not reached.
MainConstruct ==
    /\ mpc = "construct"
    /\ \E o \in InitOutcomes \ {"makedirs"} :
          /\ Construct(o)
          /\ mpc' = AfterConstruct(o)
    /\ UNCHANGED <<notCli, seller, result, periodVars, closes, closeRaised, deleted,
                   default_flag, today, authority, download_dir, headless, prompts,
                   response, fatal>>

\* result = downloader.download_transaction_data(...) and the two prints.
MainDownload ==
    /\ mpc = "download"
    /\ result' \in DownloadOutcomes(browser)
    /\ mpc' = "finally"
    /\ UNCHANGED <<notCli, seller, sessionVars, periodVars, default_flag, today,
                   authority, download_dir, headless, prompts, response, fatal>>

\* The finally block: the prompt, and close() unless the answer is "n".
ClosePrompt ==
    /\ mpc = "finally"
    /\ \E t \in {"", "y", "n", "N", "no"} :
          /\ response' = t
          /\ IF Lower(t) # "n"
             THEN CloseCall
             ELSE UNCHANGED <<closes, browser, closeRaised>>
    /\ prompts' = Append(prompts, "close")
    /\ mpc' = IF result = "raised" THEN "except" ELSE "return"
    /\ UNCHANGED <<notCli, seller, result, periodVars, session, hasDriver, deleted,
                   default_flag, today, authority, download_dir, headless, fatal>>

\* `except Exception as e`: the fatal-error report with the Chrome hint.
MainExcept ==
    /\ mpc = "except"
    /\ fatal' = "reported"
    /\ mpc' = "return"
    /\ UNCHANGED <<notCli, seller, result, periodVars, sessionVars, default_flag, today,
                   authority, download_dir, headless, prompts, response>>

\* main returns: the last reference to the FercDownloader object goes away
\* and __del__ runs.
MainReturn ==
    /\ mpc = "return"
    /\ mpc' = "done"
    /\ Del
    /\ UNCHANGED <<notCli, seller, result, periodVars, session, hasDriver, default_flag,
                   today, authority, download_dir, headless, prompts, response, fatal>>

-----------------------------------------------------------------------------
(* plot_sankey (src/sankey/sankey.py)                                      *)

\* The names of the tables in the order groupby sorts its keys; the empty
\* string is a name like any other.
NameOrder == <<"", "A", "B", "X", "Y">>

SourceNames == {"", "A", "B"}
TargetNames == {"B", "X", "Y"}

\* The value column: a different value on every row.
RowValue(i) == IF i = 1 THEN 10 ELSE IF i = 2 THEN 5 ELSE IF i = 3 THEN 3 ELSE 10 + i

\* The tables of n rows.
RECURSIVE TablesOf(_)
TablesOf(n) ==
    IF n = 0 THEN {<<>>}
    ELSE {Append(t, [Source |-> s, Target |-> g, Value |-> RowValue(n)]) :
              t \in TablesOf(n - 1), s \in SourceNames, g \in TargetNames}

Tables == UNION {TablesOf(n) : n \in 0..MaxRows}

\* df.groupby(col)[value_col].sum().index.tolist(): the distinct keys, sorted.
GroupKeys(d, col) ==
    SelectSeq(NameOrder, LAMBDA n : \E i \in 1..Len(d) : d[i][col] = n)

\* The node sequence with the target names put first.
NodesTargetsFirst(d) == GroupKeys(d, "Target") \o GroupKeys(d, "Source")

\* nodes = source_nodes + target_nodes
Nodes(d) == GroupKeys(d, "Source") \o GroupKeys(d, "Target")

\* {name: i for i, name in enumerate(nodes)}[name]: a later position of a
\* name replaces an earlier one.  Positions count from 0.
source_indices(ns, name) ==
    (CHOOSE i \in 1..Len(ns) :
        /\ ns[i] = name
        /\ \A j \in (i + 1)..Len(ns) : ns[j] # name) - 1

\* Python truth of an optional string argument.
Truthy(h) == h \notin {"None", ""}

\* link_colors[i]
LinkColor(row, hs, ht) ==
    IF Truthy(hs) /\ Truthy(ht) /\ row.Source = hs /\ row.Target = ht
    THEN "rgba(255, 0, 0, 0.8)"
    ELSE "rgba(0, 0, 255, 0.4)"

\* The whole of plot_sankey up to fig.write_image.
PlotSankey ==
    /\ spc = "start"
    /\ nodes' = Nodes(df)
    /\ links' = [i \in 1..Len(df) |->
                    [source |-> source_indices(Nodes(df), df[i].Source),
                     target |-> source_indices(Nodes(df), df[i].Target),
                     value |-> df[i].Value,
                     color |-> LinkColor(df[i], highlight_source, highlight_target)]]
    /\ spc' = "done"
    /\ UNCHANGED <<notSankey, df, highlight_source, highlight_target>>

-----------------------------------------------------------------------------
(* Submit strategies (a) and (b), button by button                         *)

MaxButtons == 2

\* len(possible_selectors)
NumSelectors == 7

\* What the code reads of a button: is_enabled(), "aspNetDisabled" in its
\* class, and whether its value/text holds "Submit", "Run" or "Execute".
Buttons == [enabled : BOOLEAN, styled : BOOLEAN, word : BOOLEAN]

\* What find_elements(By.XPATH, selector) can return.
ButtonLists == SeqsUpTo(Buttons, MaxButtons)

\* `if not btn.is_enabled() or "aspNetDisabled" in btn.get_attribute("class")`
Skipped(b) == ~b.enabled \/ b.styled

\* submit_button after the for-loop over the matches of one pattern: the first
\* match that is not skipped and carries one of the words, else the
\* submit_buttons[0] the loop started from.
PickButton(l) ==
    LET hits == {i \in 1..Len(l) : ~Skipped(l[i]) /\ l[i].word}
    IN  IF hits = {} THEN 1 ELSE CHOOSE i \in hits : \A j \in hits : i <= j

notSubmit == <<pc, seller, sellerVars, idx, success_count, cur, downloads, shots, tabs,
               faults, raised, result, expired, byVars, waitVars, activeVars, clockVars,
               postVars, periodVars, cliVars, sessionVars, sankeyVars, dirAtClick>>

\* Strategy (a): find btnSubmitOptional, click it unless it is disabled or
\* disabled-styled; any error leaves submit_button None.
ButtonPrimary ==
    /\ bpc = "primary"
    /\ \/ \E b \in Buttons :
            IF Skipped(b)
            THEN /\ submit_button' = "None"
                 /\ bpc' = "patterns"
                 /\ UNCHANGED pressed
            ELSE /\ submit_button' = "set"
                 /\ bpc' = "done"
                 /\ pressed' = Append(pressed, [list |-> <<b>>, at |-> 1])
       \/ /\ submit_button' = "None"
          /\ bpc' = "patterns"
          /\ UNCHANGED pressed
    /\ selector' = 1
    /\ UNCHANGED notSubmit

\* The step after one pattern of strategy (b) that clicked nothing.
NextPattern ==
    IF selector = NumSelectors
    THEN bpc' = "done" /\ UNCHANGED selector
    ELSE bpc' = "patterns" /\ selector' = selector + 1

\* One pass of `for selector in possible_selectors`: no match, or the pick
\* among the matches is clicked when is_enabled() and the loop breaks, or
\* find_elements raises NoSuchElementException and the loop continues.
ButtonPattern ==
    /\ bpc = "patterns"
    /\ \/ \E l \in ButtonLists :
            IF l = <<>>
            THEN /\ NextPattern
                 /\ UNCHANGED <<submit_button, pressed>>
            ELSE IF l[PickButton(l)].enabled
            THEN /\ submit_button' = "set"
                 /\ pressed' = Append(pressed, [list |-> l, at |-> PickButton(l)])
                 /\ bpc' = "done"
                 /\ UNCHANGED selector
            ELSE /\ submit_button' = "set"
                 /\ NextPattern
                 /\ UNCHANGED pressed
       \/ /\ NextPattern
          /\ UNCHANGED <<submit_button, pressed>>
    /\ UNCHANGED notSubmit

-----------------------------------------------------------------------------
(* The By step, option by option                                           *)

ByOptionTexts == {"BA and HUB", "", "Hub"}

\* What select.options of the By selector can hold.
ByLists == SeqsUpTo(ByOptionTexts, MaxOptions)

\* The selection made in a found By selector: "BA and HUB" by its text when
\* it is among the options; else, when there is any option,
\* select_by_index(1), which raises NoSuchElementException when no option has
\* index 1; place 0 stands for no selection.
BySelection(opts) ==
    LET named == {i \in 1..Len(opts) : opts[i] = "BA and HUB"}
    IN  IF named # {}
        THEN [at |-> CHOOSE i \in named : \A j \in named : i <= j, raises |-> FALSE]
        ELSE IF Len(opts) > 0
        THEN IF Len(opts) >= 2 THEN [at |-> 2, raises |-> FALSE]
             ELSE [at |-> 0, raises |-> TRUE]
        ELSE [at |-> 0, raises |-> FALSE]

\* The try body of the By step on a given page: the lookups, the selection,
\* after_by_selection.png; an error of the selection or of any other command
\* goes to the handler of the step.
ByDropdownOn ==
    /\ pc = "by"
    /\ \E found \in {"None", "byId", "byXPath", "byScan"}, opts \in ByLists :
          LET s == BySelection(opts)
          IN  /\ by_dropdown' = found
              /\ byOpts' = IF found = "None" THEN <<>> ELSE opts
              /\ \/ /\ found = "None" \/ ~s.raises
                    /\ bySelected' = IF found = "None" THEN 0 ELSE s.at
                    /\ shots' = shots \cup {"after_by_selection.png"}
                    /\ Go("period")
                 \/ /\ found # "None" /\ s.raises
                    /\ bySelected' = 0
                    /\ pc' = "by_err"
                    /\ UNCHANGED <<shots, faults, raised>>
                 \/ /\ bySelected' = 0
                    /\ Caught("by_err")
                    /\ UNCHANGED shots
    /\ UNCHANGED <<aside, expired, seller, sellerVars, loopVars, tabs, result>>

\* report_period = self.determine_report_period(start_date, end_date), inside
\* the download_transaction_data that main() calls with its two dates.
RunPeriod ==
    /\ mpc = "download"
    /\ DeterminePeriod

-----------------------------------------------------------------------------
(* Specifications                                                          *)

MainIdle ==
    /\ expired = {}
    /\ by_dropdown = "None"
    /\ byOpts = <<>>
    /\ bySelected = 0
    /\ sellers = <<>>
    /\ seller_dropdown = "None"
    /\ dropdownOpts = <<>>
    /\ poll = "none"
    /\ scan = "none"
    /\ idx = 0
    /\ success_count = 0
    /\ submit_button = "None"
    /\ cur = FreshIter
    /\ downloads = 0
    /\ shots = {}
    /\ tabs = [byId |-> "none", byLinkText |-> "none", byScript |-> "none"]
    /\ faults = 0
    /\ raised = "none"
    /\ result = "none"

WaitIdle ==
    /\ wpc = "idle"
    /\ dir = {}
    /\ before_download = {}
    /\ new_files = {}
    /\ wresult = "none"

ActiveIdle ==
    /\ apc = "idle"
    /\ elem = NoElement
    /\ seen = [read |-> FALSE, state |-> NoElement]
    /\ aresult = "none"

ClockIdle ==
    /\ now = 0
    /\ start_time = 0
    /\ timeout = 0

PostbackIdle ==
    /\ ppc = "idle"
    /\ framework = "absent"
    /\ flag = "undefined"
    /\ handlers = FALSE
    /\ completed = "none"
    /\ polls = 0
    /\ cycleEnded = FALSE
    /\ presult = "none"

PeriodIdle ==
    /\ start_date = <<>>
    /\ end_date = <<>>
    /\ report_period = NoPeriod

CliIdle ==
    /\ mpc = "idle"
    /\ default_flag = FALSE
    /\ today = NoDate
    /\ authority = "unset"
    /\ download_dir = "unset"
    /\ headless = FALSE
    /\ prompts = <<>>
    /\ response = "none"
    /\ fatal = "none"

SessionIdle ==
    /\ session = "none"
    /\ hasDriver = FALSE
    /\ browser = "none"
    /\ closes = 0
    /\ closeRaised = FALSE
    /\ deleted = FALSE

SankeyIdle ==
    /\ df = <<>>
    /\ highlight_source = "None"
    /\ highlight_target = "None"
    /\ nodes = <<>>
    /\ links = <<>>
    /\ spc = "idle"

SubmitIdle ==
    /\ bpc = "idle"
    /\ selector = 0
    /\ pressed = <<>>
    /\ dirAtClick = {}

LaterIdle ==
    /\ SubmitIdle
    /\ PostbackIdle
    /\ PeriodIdle
    /\ CliIdle
    /\ SessionIdle
    /\ SankeyIdle

\* The pages the whole operation is run against: a seller selector listing a
\* placeholder and two sellers, or listing nothing.
RunOptions == {<<" ", "S1", "S2">>, <<>>}
RunSelects == {<<>>, <<GoodSelect(<<" ", "S1", "S2">>)>>}

Init ==
    /\ LaterIdle
    /\ pc = "load"
    /\ seller \in SellerArgs
    /\ MainIdle
    /\ WaitIdle
    /\ ActiveIdle
    /\ ClockIdle

Next ==
    \/ LoadPage
    \/ InitialShot
    \/ TabById
    \/ TabByLinkText
    \/ TabByScript
    \/ TabFatal
    \/ AfterTabShot
    \/ ReportType
    \/ ReportTypeRecovery
    \/ ByDropdown
    \/ ByDropdownError
    \/ ReportPeriod
    \/ ReportPeriodError
    \/ BalancingAuthority
    \/ BalancingAuthorityError
    \/ StartDate
    \/ StartDateRecovery
    \/ EndDate
    \/ EndDateRecovery
    \/ SellerDropdown(RunOptions)
    \/ SellerDropdownRecovery(RunSelects)
    \/ ExportFormat
    \/ ExportFormatRecovery
    \/ BeforeSubmitShot
    \/ SelectSeller
    \/ SubmitPrimary
    \/ SubmitPatterns
    \/ SubmitScript
    \/ SubmitEnumerate
    \/ AwaitDownload
    \/ SellerError
    \/ Summary
    \/ FinalError

Spec == Init /\ [][Next]_vars

\* Seller discovery alone, over every option list and every scan the bounds
\* allow.
InitSellers ==
    /\ LaterIdle
    /\ pc = "sellers"
    /\ seller \in SellerArgs
    /\ MainIdle
    /\ WaitIdle
    /\ ActiveIdle
    /\ ClockIdle

NextSellers ==
    \/ SellerDropdown(OptionLists)
    \/ SellerDropdownRecovery(SelectLists(OptionLists))

SpecSellers == InitSellers /\ [][NextSellers]_vars

\* _wait_for_download alone: called at any time, with any timeout, on a
\* directory holding any files.
InitWait ==
    /\ LaterIdle
    /\ pc = "idle"
    /\ seller = "all"
    /\ MainIdle
    /\ ActiveIdle
    /\ wpc = "start"
    /\ dir \in SUBSET FileNames
    /\ before_download = {}
    /\ new_files = {}
    /\ wresult = "none"
    /\ now \in 0..1
    /\ start_time = 0
    /\ timeout \in 0..MaxTimeout

NextWait ==
    \/ WaitStart
    \/ WaitTest
    \/ WaitPoll
    \/ WaitSleep
    \/ DirChanges

SpecWait == InitWait /\ [][NextWait]_vars

\* wait_for_element_to_be_active alone: called at any time, with any timeout,
\* on a page in any state.
InitActive ==
    /\ LaterIdle
    /\ pc = "idle"
    /\ seller = "all"
    /\ MainIdle
    /\ WaitIdle
    /\ apc = "start"
    /\ elem \in ElemStates
    /\ seen = [read |-> FALSE, state |-> NoElement]
    /\ aresult = "none"
    /\ now \in 0..1
    /\ start_time = 0
    /\ timeout \in 0..MaxTimeout

NextActive ==
    \/ ActiveStart
    \/ ActiveTest
    \/ ActivePoll
    \/ ActiveSleep
    \/ PageChanges

SpecActive == InitActive /\ [][NextActive]_vars

\* wait_for_postback alone, with a timeout as its callers leave it (positive),
\* on a page with or without the framework, whatever an earlier call left in
\* the flag and the handlers.
InitPostback ==
    /\ pc = "idle"
    /\ seller = "all"
    /\ SubmitIdle
    /\ MainIdle
    /\ WaitIdle
    /\ ActiveIdle
    /\ PeriodIdle
    /\ CliIdle
    /\ SessionIdle
    /\ SankeyIdle
    /\ ppc = "reset"
    /\ framework \in {"absent", "present", "noInstance"}
    /\ flag \in {"undefined", "false", "true"}
    /\ handlers \in {h \in BOOLEAN : h => framework = "present"}
    /\ completed = "none"
    /\ polls = 0
    /\ cycleEnded = FALSE
    /\ presult = "none"
    /\ now \in 0..1
    /\ start_time = 0
    /\ timeout \in 1..MaxTimeout

NextPostback ==
    \/ PostbackReset
    \/ PostbackRegister
    \/ PostbackTest
    \/ PostbackPoll
    \/ PostbackSleep
    \/ EndRequest

SpecPostback == InitPostback /\ [][NextPostback]_vars

\* determine_report_period alone, over every pair of valid date texts.
InitPeriod ==
    /\ pc = "idle"
    /\ seller = "all"
    /\ SubmitIdle
    /\ MainIdle
    /\ WaitIdle
    /\ ActiveIdle
    /\ ClockIdle
    /\ PostbackIdle
    /\ CliIdle
    /\ SessionIdle
    /\ SankeyIdle
    /\ start_date \in ValidDates(PeriodDates)
    /\ end_date \in ValidDates(PeriodDates)
    /\ report_period = NoPeriod

NextPeriod ==
    \/ DeterminePeriod

SpecPeriod == InitPeriod /\ [][NextPeriod]_vars

\* A FercDownloader used by any client: constructed once, then downloads and
\* close() calls in any order, and __del__ at the end.
InitSession ==
    /\ pc = "idle"
    /\ seller = "all"
    /\ result = "none"
    /\ SubmitIdle
    /\ MainIdle
    /\ WaitIdle
    /\ ActiveIdle
    /\ ClockIdle
    /\ PostbackIdle
    /\ PeriodIdle
    /\ SankeyIdle
    /\ SessionIdle
    /\ mpc = "idle"
    /\ default_flag = FALSE
    /\ today = NoDate
    /\ authority = "unset"
    /\ download_dir \in {"cwd", "given", "missing"}
    /\ headless \in BOOLEAN
    /\ prompts = <<>>
    /\ response = "none"
    /\ fatal = "none"

NextSession ==
    \/ SessionConstruct
    \/ SessionDownload
    \/ SessionClose
    \/ SessionDel

SpecSession == InitSession /\ [][NextSession]_vars

\* main(), run with or without --default.
InitCli ==
    /\ pc = "idle"
    /\ seller = "unset"
    /\ result = "none"
    /\ SubmitIdle
    /\ MainIdle
    /\ WaitIdle
    /\ ActiveIdle
    /\ ClockIdle
    /\ PostbackIdle
    /\ PeriodIdle
    /\ SankeyIdle
    /\ SessionIdle
    /\ mpc = "argv"
    /\ default_flag \in BOOLEAN
    /\ today = NoDate
    /\ authority = "unset"
    /\ download_dir = "unset"
    /\ headless = FALSE
    /\ prompts = <<>>
    /\ response = "none"
    /\ fatal = "none"

NextCli ==
    \/ DefaultValues
    \/ Interactive
    \/ PromptStartDate
    \/ PromptEndDate
    \/ PromptSeller
    \/ PromptAuthority
    \/ PromptDirectory
    \/ PromptHeadless
    \/ MainConstruct
    \/ MainDownload
    \/ ClosePrompt
    \/ MainExcept
    \/ MainReturn

SpecCli == InitCli /\ [][NextCli]_vars

\* plot_sankey alone, over every table of the bounds and every highlight.
InitSankey ==
    /\ pc = "idle"
    /\ seller = "all"
    /\ SubmitIdle
    /\ MainIdle
    /\ WaitIdle
    /\ ActiveIdle
    /\ ClockIdle
    /\ PostbackIdle
    /\ PeriodIdle
    /\ CliIdle
    /\ SessionIdle
    /\ df \in Tables
    /\ highlight_source \in {"None", "", "A"}
    /\ highlight_target \in {"None", "X"}
    /\ nodes = <<>>
    /\ links = <<>>
    /\ spc = "start"

NextSankey ==
    \/ PlotSankey

SpecSankey == InitSankey /\ [][NextSankey]_vars

\* Strategies (a) and (b) of one seller, over the buttons the page can hold.
InitSubmit ==
    /\ pc = "idle"
    /\ seller = "all"
    /\ MainIdle
    /\ WaitIdle
    /\ ActiveIdle
    /\ ClockIdle
    /\ PostbackIdle
    /\ PeriodIdle
    /\ CliIdle
    /\ SessionIdle
    /\ SankeyIdle
    /\ bpc = "primary"
    /\ selector = 0
    /\ pressed = <<>>
    /\ dirAtClick = {}

NextSubmit ==
    \/ ButtonPrimary
    \/ ButtonPattern

SpecSubmit == InitSubmit /\ [][NextSubmit]_vars

\* One submission and its download wait: the directory as the click finds it,
\* then _wait_for_download with a positive timeout while the browser writes.
InitCredit ==
    /\ LaterIdle
    /\ pc = "idle"
    /\ seller = "all"
    /\ MainIdle
    /\ ActiveIdle
    /\ wpc = "click"
    /\ dir \in SUBSET FileNames
    /\ before_download = {}
    /\ new_files = {}
    /\ wresult = "none"
    /\ now = 0
    /\ start_time = 0
    /\ timeout \in 1..MaxTimeout

NextCredit ==
    \/ SubmitClick
    \/ WaitStart
    \/ WaitTest
    \/ WaitPoll
    \/ WaitSleep
    \/ DirChanges

SpecCredit == InitCredit /\ [][NextCredit]_vars

\* The By step alone, entered after the steps before it, on any page.
InitBy ==
    /\ LaterIdle
    /\ MainIdle
    /\ WaitIdle
    /\ ActiveIdle
    /\ ClockIdle
    /\ pc = "by"
    /\ seller \in SellerArgs

NextBy ==
    \/ ByDropdownOn
    \/ ByDropdownError

SpecBy == InitBy /\ [][NextBy]_vars

\* The seller loop from its first iteration on, over a directory that holds
\* the screenshots of the earlier steps and whatever else was there.
InitOwnFiles ==
    /\ LaterIdle
    /\ pc = "idle"
    /\ seller = "all"
    /\ MainIdle
    /\ ActiveIdle
    /\ wpc = "between"
    /\ \E old \in SUBSET {<<"b", ".tmp">>} : dir = EarlierShots \cup old
    /\ before_download = {}
    /\ new_files = {}
    /\ wresult = "none"
    /\ now = 0
    /\ start_time = 0
    /\ timeout \in 1..MaxTimeout

NextOwnFiles ==
    \/ BeginWait
    \/ SellerFails
    \/ AfterWait
    \/ WaitStart
    \/ WaitTest
    \/ WaitPoll
    \/ WaitSleep
    \/ FileLands

SpecOwnFiles == InitOwnFiles /\ [][NextOwnFiles]_vars

\* download_transaction_data and each of its three polling loops, run to
\* their end: every step that is started completes (each browser command
\* returns or raises, each sleep ends), while the page and the directory
\* change as they like.
InitTerminates ==
    \/ Init
    \/ InitWait
    \/ InitActive
    \/ InitPostback

NextTerminates ==
    \/ Next
    \/ NextWait
    \/ NextActive
    \/ NextPostback

SpecTerminates ==
    /\ InitTerminates
    /\ [][NextTerminates]_vars
    /\ WF_vars(Next)
    /\ WF_vars(WaitStart \/ WaitTest \/ WaitPoll \/ WaitSleep)
    /\ WF_vars(ActiveStart \/ ActiveTest \/ ActivePoll \/ ActiveSleep)
    /\ WF_vars(PostbackReset \/ PostbackRegister \/ PostbackTest \/ PostbackPoll
                  \/ PostbackSleep)

\* main() with the report period its download derives from the two dates.
NextRunPeriod ==
    \/ NextCli
    \/ RunPeriod

SpecRunPeriod == InitCli /\ [][NextRunPeriod]_vars

-----------------------------------------------------------------------------
(* Claims                                                                  *)

TabNavigationDone == "after_tab_click.png" \in shots

\* before_submit.png is written by the statement right before the loop.
LoopReached == "before_submit.png" \in shots

\* C1 (as stated): download_transaction_data returns True if and only if at
\* least one seller's download wait reported a new file.
C1_TrueIffSomeDownload ==
    pc = "done" => (result = "True" <=> downloads > 0)

\* C2 (as stated): no error leaves download_transaction_data; an error that
\* escapes the steps ends in final_error.png and a False return, whichever
\* command fails, the screenshot command included.
C2_NeverPropagates ==
    /\ result # "raised"
    /\ pc = "done" /\ raised # "none" =>
          result = "False" /\ "final_error.png" \in shots

FilterSteps == {"report_type", "report_type_err", "by", "by_err", "period",
                "period_err", "authority", "authority_err", "start_date",
                "start_date_err", "end_date", "end_date_err", "sellers",
                "sellers_err", "export", "export_err"}

\* C3 (as stated): once tab navigation has completed, no failure in a filter
\* step, the steps' own handlers included, keeps the run from reaching the
\* seller loop.
C3_FilterStepsNeverAbort ==
    /\ raised \notin FilterSteps
    /\ pc = "done" /\ TabNavigationDone /\ ~LoopReached => raised = "before_submit"

\* C4 (as stated): the abort "Unable to navigate to Filing Inquiries tab" is
\* raised only when none of the three tab strategies clicked the tabs.
C4_AbortOnlyWhenAllFailed ==
    raised = "Unable to navigate to Filing Inquiries tab" =>
        /\ tabs.byId # "clicked"
        /\ tabs.byLinkText # "clicked"
        /\ tabs.byScript # "clicked"

\* C5 (as stated): no failure inside one seller's iteration keeps the
\* remaining sellers from being processed: a run that reached the loop ends
\* with every seller of the list visited.
C5_EverySellerProcessed ==
    pc = "done" /\ LoopReached => idx = Len(sellers)

\* C6: when selecting a seller fails, nothing is clicked or submitted and no
\* download wait is made for that seller, the success counter and the files
\* are as before, and the loop is at the next seller.
C6_FailedSelectionSkipsSeller ==
    /\ [](cur.selected = "failed" =>
            /\ cur.clicks = 0 /\ cur.scriptClicks = 0 /\ cur.forms = 0
            /\ cur.wait = "none" /\ ~cur.caught
            /\ pc \in {"loop", "done"})
    /\ [][pc = "loop" /\ pc' # "done" /\ cur'.selected = "failed" =>
            /\ idx' = idx + 1
            /\ pc' = "loop"
            /\ success_count' = success_count
            /\ downloads' = downloads
            /\ shots' = shots]_vars

\* C6 witness: the selection of the first of two sellers failed and the loop
\* stands at the second.
C6_Witness ==
    /\ cur.selected = "failed"
    /\ pc = "loop"
    /\ idx = 1
    /\ Len(sellers) = 2

IsPartial(f) == f[Len(f)] \in {".crdownload", ".tmp"}

NonBlankOptions == SelectSeq(dropdownOpts, LAMBDA t : t \notin {"", " "})

\* The selector was found by its identifier and read without error.
PrimaryPath == pc = "export" /\ poll = "found" /\ scan = "none"

\* The selector was taken from the scan of the handler.
ScanPath == pc = "export" /\ scan = "hit"

\* C8 (as stated): with a selector available the list is every non-blank
\* option for "all", and else the requested seller if it is among the
\* options, else the first non-blank option.
C8_ListFromSelector ==
    PrimaryPath \/ ScanPath =>
        IF seller = "all" THEN sellers = NonBlankOptions
        ELSE IF seller \in Range(dropdownOpts) THEN sellers = <<seller>>
        ELSE NonBlankOptions # <<>> => sellers = <<NonBlankOptions[1]>>

\* C8 (amended): on the primary path the list is every non-blank option, in
\* option order, for "all", and else the requested seller whether or not the
\* selector lists it; on the scan path it is every non-blank option for "all"
\* ("Default Seller" alone when there is none), and else the requested seller
\* if it is among the non-blank options, else the first non-blank option.
C8_ListPerPath ==
    /\ PrimaryPath =>
          sellers = IF seller = "all" THEN NonBlankOptions ELSE <<seller>>
    /\ ScanPath /\ seller = "all" =>
          sellers = IF NonBlankOptions = <<>> THEN <<"Default Seller">>
                    ELSE NonBlankOptions
    /\ ScanPath /\ seller # "all" =>
          IF seller \in Range(NonBlankOptions) THEN sellers = <<seller>>
          ELSE NonBlankOptions # <<>> /\ sellers = <<NonBlankOptions[1]>>

\* C8 witness: "all" on the primary path, a blank option dropped from the list.
C8_Witness ==
    /\ PrimaryPath
    /\ seller = "all"
    /\ sellers # <<>>
    /\ Len(sellers) < Len(dropdownOpts)

\* C9 (as stated): when the poll for the seller selector returns absent, the
\* select elements are scanned for one whose id contains 'Seller'.
C9_AbsentPollScans ==
    poll = "absent" => scan # "none"

IsActive(e) ==
    /\ e.present /\ e.displayed /\ e.enabled
    /\ \A i \in 1..Len(e.class) : e.class[i] # "aspNetDisabled"

\* C10: wait_for_element_to_be_active never raises; it returns the element at
\* the first poll that reads it present, displayed, enabled and not
\* disabled-styled, and None only once the timeout has passed with no such
\* poll.
C10_ActiveElementOrNone ==
    /\ aresult \in {"none", "None", "element"}
    /\ aresult = "element" => seen.read /\ IsActive(seen.state)
    /\ apc = "sleep" \/ aresult = "None" => ~(seen.read /\ IsActive(seen.state))
    /\ aresult = "None" => now - start_time >= timeout

\* C10 witness: the element returned by a poll after the first.
C10_Witness ==
    /\ aresult = "element"
    /\ now > start_time

\* C11: wait_for_postback returns True exactly when a poll made before the
\* deadline read the flag set, and False only after the deadline with no such
\* poll; with the framework absent the first poll returns True; with the
\* framework present True is returned only if an update cycle ended during the
\* call.
C11_TrueIffFlagObserved ==
    /\ presult = "True" => completed = "true" /\ now - start_time < timeout
    /\ ppc = "sleep" \/ presult = "False" => polls > 0 /\ completed # "true"
    /\ presult = "False" => now - start_time >= timeout
    /\ framework = "absent" /\ presult \in {"True", "False"} =>
          presult = "True" /\ polls = 1
    /\ framework # "absent" /\ presult = "True" => cycleEnded

\* C11 witness: with the framework present, True returned by a poll after the
\* first, an update cycle having ended in between.
C11_Witness ==
    /\ framework = "present"
    /\ presult = "True"
    /\ polls > 1
    /\ cycleEnded

QuarterNames == <<"Q1, Jan-Mar", "Q2, Apr-Jun", "Q3, Jul-Sep", "Q4, Oct-Dec">>

\* The sum of the day numbers of the two dates of the call.
DaySum == ToOrdinal(Strptime(start_date)) + ToOrdinal(Strptime(end_date))

\* Month m of year y holds the midpoint: the midpoint's day number, half the
\* sum rounded down, is neither before the month's first day nor after its last.
HoldsMidpoint(y, m) ==
    LET first == ToOrdinal([ok |-> TRUE, year |-> y, month |-> m, day |-> 1])
    IN  /\ 2 * first <= DaySum
        /\ DaySum < 2 * (first + DaysInMonth(y, m))

\* C12: for every pair of valid dates determine_report_period returns exactly
\* one of the four quarter labels, the quarter being the one that holds the
\* month of the midpoint of the range and the year the midpoint's year;
\* 01/01/2024..01/31/2024 gives Q1 2024 and 06/01/2024..08/31/2024 gives Q3 2024.
C12_QuarterOfMidpoint ==
    report_period # NoPeriod =>
        /\ \E y \in Years, q \in 1..4 :
              /\ report_period = [quarter |-> QuarterNames[q], year |-> y]
              /\ \E m \in (3 * q - 2)..(3 * q) : HoldsMidpoint(y, m)
        /\ start_date = <<1, 1, 2024>> /\ end_date = <<1, 31, 2024>> =>
              report_period = [quarter |-> "Q1, Jan-Mar", year |-> 2024]
        /\ start_date = <<6, 1, 2024>> /\ end_date = <<8, 31, 2024>> =>
              report_period = [quarter |-> "Q3, Jul-Sep", year |-> 2024]

\* C12 witness: a range that starts in the second quarter, ends in the fourth
\* of the next year and has its midpoint in the first.
C12_Witness ==
    /\ start_date = <<6, 1, 2024>>
    /\ end_date = <<10, 15, 2025>>
    /\ report_period = [quarter |-> "Q1, Jan-Mar", year |-> 2025]

\* C14: close() never raises; once it has been called the browser of a
\* session that has one is terminated; a call after the first, the cleanup of
\* __del__ after an explicit close included, changes nothing; on a session
\* whose browser was never created it does nothing.
C14_CloseIdempotent ==
    /\ [](/\ ~closeRaised
          /\ closes > 0 /\ hasDriver => browser = "terminated"
          /\ ~hasDriver => browser = "none")
    /\ [][closes > 0 /\ closes' > closes =>
              browser' = browser /\ hasDriver' = hasDriver /\ session' = session]_vars

\* C14 witness: close() called twice by the client and once more by __del__.
C14_Witness ==
    /\ closes = 3
    /\ deleted
    /\ browser = "terminated"

\* C13: in interactive mode an entry that is no date makes the same prompt
\* come again and leaves every other field as it was, a rejected end date
\* leaving the accepted start date; the session is not constructed before
\* both dates have parsed.
C13_InvalidDateReprompts ==
    /\ [](~default_flag /\ mpc \notin {"argv", "start"} => Strptime(start_date).ok)
    /\ [](~default_flag /\ session # "none" =>
              Strptime(start_date).ok /\ Strptime(end_date).ok)
    /\ [][/\ mpc = "start" /\ prompts' # prompts /\ ~Strptime(start_date').ok =>
              /\ mpc' = "start"
              /\ UNCHANGED <<end_date, seller, authority, download_dir, headless,
                             sessionVars>>]_vars
    /\ [][/\ mpc = "end" /\ prompts' # prompts /\ ~Strptime(end_date').ok =>
              /\ mpc' = "end"
              /\ UNCHANGED <<start_date, seller, authority, download_dir, headless,
                             sessionVars>>]_vars

\* C13 witness: "13/40/2024" typed for the start date and again for the end
\* date, each prompt repeated, and the session then constructed.
C13_Witness ==
    /\ session = "ok"
    /\ Len(prompts) >= 4
    /\ prompts[1] = "start" /\ prompts[2] = "start"
    /\ prompts[3] = "end" /\ prompts[4] = "end"
    /\ start_date = <<1, 1, 2024>>

ClosePrompts == Len(SelectSeq(prompts, LAMBDA p : p = "close"))

\* C15 (as stated): with the session constructed, "Close browser?" is asked
\* exactly once whatever the download call did, and close() is invoked if and
\* only if the lower-cased answer is not "n".
C15_CloseIffNotDeclined ==
    mpc = "done" /\ session = "ok" =>
        /\ ClosePrompts = 1
        /\ closes > 0 <=> Lower(response) # "n"

\* C16: an error raised by the construction of the session or by the download
\* is reported by the handler of main, which then ends without an unhandled
\* error; after a failed construction no download is attempted and the close
\* prompt is not issued.
C16_FatalErrorsReported ==
    /\ mpc = "done" /\ (session = "failed" \/ result = "raised") => fatal = "reported"
    /\ fatal = "crash" => session = "none"
    /\ session = "failed" => result = "none" /\ ClosePrompts = 0 /\ mpc # "download"

\* C16 witness: the browser was started, maximize_window raised, and main
\* has ended with the report.
C16_Witness ==
    /\ mpc = "done"
    /\ session = "failed"
    /\ hasDriver
    /\ fatal = "reported"

\* C17: with --default the start date is day 1 of the first month (1, 4, 7 or
\* 10) of the quarter that holds today and the end date is today (on the 10th
\* of month 2, day 1 of month 1 of that year); seller is "all", authority is
\* "CISO", and the session is constructed with no prompt issued before.
C17_DefaultQuarterToDate ==
    default_flag /\ mpc # "argv" =>
        /\ \E q \in {1, 4, 7, 10} :
              /\ q <= today.month /\ today.month <= q + 2
              /\ start_date = <<q, 1, today.year>>
        /\ end_date = <<today.month, today.day, today.year>>
        /\ today.month = 2 /\ today.day = 10 => start_date = <<1, 1, today.year>>
        /\ seller = "all"
        /\ authority = "CISO"
        /\ mpc \in {"construct", "download"} \/ session # "ok" => prompts = <<>>
        /\ prompts \in {<<>>, <<"close">>}

\* C17 witness: --default on the 10th of month 2, the session constructed.
C17_Witness ==
    /\ default_flag
    /\ today.month = 2 /\ today.day = 10
    /\ session = "ok"
    /\ mpc = "download"

Rank(name) == CHOOSE r \in 1..Len(NameOrder) : NameOrder[r] = name

SourceCount == Cardinality({df[i].Source : i \in 1..Len(df)})
TargetCount == Cardinality({df[i].Target : i \in 1..Len(df)})

\* C18: the node sequence is the distinct source names in key order followed
\* by the distinct target names in key order, and there is one link per row,
\* in row order, whose two indices point at nodes labelled with the row's
\* source and target and whose value is the row's; rows (A,X,10),(B,X,5),
\* (A,Y,3) give nodes [A,B,X,Y] and links 0->2, 1->2, 0->3.
C18_NodesAndLinks ==
    spc = "done" =>
        /\ Len(nodes) = SourceCount + TargetCount
        /\ {nodes[k] : k \in 1..SourceCount} = {df[i].Source : i \in 1..Len(df)}
        /\ {nodes[k] : k \in (SourceCount + 1)..Len(nodes)} =
              {df[i].Target : i \in 1..Len(df)}
        /\ \A k \in 1..(Len(nodes) - 1) :
              k # SourceCount => Rank(nodes[k]) < Rank(nodes[k + 1])
        /\ Len(links) = Len(df)
        /\ \A i \in 1..Len(df) :
              /\ nodes[links[i].source + 1] = df[i].Source
              /\ nodes[links[i].target + 1] = df[i].Target
              /\ links[i].value = df[i].Value
        /\ df = << [Source |-> "A", Target |-> "X", Value |-> 10],
                   [Source |-> "B", Target |-> "X", Value |-> 5],
                   [Source |-> "A", Target |-> "Y", Value |-> 3] >> =>
              /\ nodes = <<"A", "B", "X", "Y">>
              /\ [i \in 1..3 |-> <<links[i].source, links[i].target>>] =
                    << <<0, 2>>, <<1, 2>>, <<0, 3>> >>

\* C18 witness: the table of the example, drawn.
C18_Witness ==
    /\ spc = "done"
    /\ nodes = <<"A", "B", "X", "Y">>
    /\ Len(links) = 3
    /\ links[3].value = 3

\* C19 (as stated): a link is red exactly when both highlighted values are
\* supplied and its row has that source and that target; every other link is
\* blue.
C19_RedIffHighlighted ==
    spc = "done" =>
        \A i \in 1..Len(df) :
            links[i].color =
                IF /\ highlight_source # "None"
                   /\ highlight_target # "None"
                   /\ df[i].Source = highlight_source
                   /\ df[i].Target = highlight_target
                THEN "rgba(255, 0, 0, 0.8)"
                ELSE "rgba(0, 0, 255, 0.4)"

\* C20 (as stated): every row's source index is a position in the source
\* group and its target index a position in the target group, each labelled
\* with the row's name, so every node is an endpoint of some link.
C20_LinksByGroupPosition ==
    spc = "done" =>
        /\ \A i \in 1..Len(df) :
              /\ links[i].source < SourceCount
              /\ links[i].target >= SourceCount
        /\ \A k \in 1..Len(nodes) :
              \E i \in 1..Len(df) : k - 1 \in {links[i].source, links[i].target}

\* C21 (as stated): for a seller whose selection succeeded, strategy (b) is
\* left for the download wait, or for the handler that skips the page script,
\* only with a click made; when (a) and (b) clicked nothing the page script
\* (c) runs before the wait.
C21_ScriptBeforeWait ==
    [][pc = "submit_b" /\ pc' \in {"wait", "submit_d"} => cur'.clicks > 0]_vars

\* C23 (as stated): forms[0].submit() runs only in an iteration in which no
\* submit control has been clicked, by a strategy or by the enumerate-and-click
\* step.
C23_FormSubmitLastResort ==
    cur.forms > 0 => cur.clicks = 0 /\ cur.scriptClicks = 0

\* The clicks of strategies (a) and (b).
Wanted(b) == b.enabled /\ ~b.styled

FirstWanted(l) ==
    LET worded == {i \in 1..Len(l) : Wanted(l[i]) /\ l[i].word}
        wanted == {i \in 1..Len(l) : Wanted(l[i])}
    IN  IF worded # {} THEN {CHOOSE i \in worded : \A j \in worded : i <= j}
        ELSE IF wanted # {} THEN {CHOOSE i \in wanted : \A j \in wanted : i <= j}
        ELSE {}

\* C22 (as stated): every control clicked by strategies (a) and (b) is enabled
\* and not disabled-styled, and is the first such match of its pattern that
\* carries "Submit", "Run" or "Execute", or the first such match when none does.
C22_ClickedIsFirstEnabledMatch ==
    \A k \in 1..Len(pressed) :
        /\ Wanted(pressed[k].list[pressed[k].at])
        /\ pressed[k].at \in FirstWanted(pressed[k].list)

\* A pattern whose first match is disabled-styled but answers is_enabled()
\* was clicked although a later match is enabled and unstyled.
C22_Witness ==
    \E k \in 1..Len(pressed) :
        /\ pressed[k].at = 1
        /\ pressed[k].list[1].styled
        /\ FirstWanted(pressed[k].list) = {2}

\* The place of each position of download_transaction_data in the order of
\* its steps.
StepOrder(p) ==
    CASE p \in {"load", "initial_shot"} -> 1
      [] p \in {"tab_id", "tab_link", "tab_js", "tab_fatal", "after_tab_shot"} -> 2
      [] p \in {"report_type", "report_type_err"} -> 3
      [] p \in {"by", "by_err"} -> 4
      [] p \in {"period", "period_err"} -> 5
      [] p \in {"authority", "authority_err"} -> 6
      [] p \in {"start_date", "start_date_err"} -> 7
      [] p \in {"end_date", "end_date_err"} -> 8
      [] p \in {"sellers", "sellers_err"} -> 9
      [] p \in {"export", "export_err"} -> 10
      [] p = "before_submit" -> 11
      [] p \in {"loop", "submit_a", "submit_b", "submit_c", "submit_d", "wait",
                "seller_err"} -> 12
      [] p \in {"final", "done"} -> 13

Submitted == cur.clicks + cur.scriptClicks + cur.forms > 0

\* C24: the operation is at one position at a time, every move stays in the
\* step it is in, enters the next one, or ends the run; and nothing is clicked
\* or submitted before before_submit.png has been captured.
C24_StepsInOrder ==
    /\ [](Submitted => "before_submit.png" \in shots /\ StepOrder(pc) >= 12)
    /\ [][\/ StepOrder(pc') \in {StepOrder(pc), StepOrder(pc) + 1}
          \/ pc' \in {"final", "done"}]_vars

C24_Witness ==
    /\ pc = "wait"
    /\ cur.clicks > 0
    /\ {"initial_page.png", "after_tab_click.png", "before_submit.png"} \subseteq shots

\* The finished files that landed after the click and before the wait took
\* its first directory listing, and are still there.
LandedEarly == {f \in (before_download \cap dir) \ dirAtClick : ~IsPartial(f)}

\* C25 (as stated): a finished file that was not in the directory at the
\* submit click and appears after it is credited to the seller, also when it
\* lands before the wait takes its first directory listing: the wait does not
\* return False with such a file in the directory.
C25_EarlyDownloadCredited ==
    wresult = "False" => LandedEarly = {}

\* Where the try of each step that uses self.wait hands a raised error.
HandlerOf(step) ==
    CASE step = "tab_id" -> "tab_link"
      [] step = "report_type" -> "report_type_err"
      [] step = "start_date" -> "start_date_err"
      [] step = "end_date" -> "end_date_err"
      [] step = "export" -> "export_err"

\* C26 (as stated): no wait raises on expiry; outside tab navigation, a step
\* whose bounded wait ran out of time goes on along its non-error path and
\* not into its handler.
C26_ExpiryNeverRaises ==
    [][\A step \in (expired' \ expired) \ {"tab_id"} : pc' # HandlerOf(step)]_vars

IndexedNames(prefix) == {IndexedShot(prefix, i) : i \in 0..(Len(Digits) - 1)}

\* The diagnostic names the specification lists.
ListedNames ==
    {"initial_page.png", "tab_error.png", "page_source.html", "after_tab_click.png",
     "after_report_type.png", "report_type_error.png",
     "after_report_type_recovery.png", "after_by_selection.png",
     "by_dropdown_error.png", "after_report_period.png", "report_period_error.png",
     "after_authority.png", "authority_error.png", "start_date_error.png",
     "end_date_error.png", "before_submit.png", "final_error.png"}
    \cup IndexedNames("after_submit_") \cup IndexedNames("seller_error_")

\* The names each position of the operation may write.
WrittenAt(p) ==
    CASE p = "initial_shot" -> {"initial_page.png"}
      [] p = "tab_fatal" -> {"tab_error.png", "page_source.html"}
      [] p = "after_tab_shot" -> {"after_tab_click.png"}
      [] p = "report_type" -> {"after_report_type.png"}
      [] p = "report_type_err" -> {"report_type_error.png",
                                   "after_report_type_recovery.png"}
      [] p = "by" -> {"after_by_selection.png"}
      [] p = "by_err" -> {"by_dropdown_error.png"}
      [] p = "period" -> {"after_report_period.png"}
      [] p = "period_err" -> {"report_period_error.png"}
      [] p = "authority" -> {"after_authority.png"}
      [] p = "authority_err" -> {"authority_error.png"}
      [] p = "start_date_err" -> {"start_date_error.png"}
      [] p = "end_date_err" -> {"end_date_error.png"}
      [] p = "sellers_err" -> {"seller_dropdown_error.png"}
      [] p = "export_err" -> {"export_format_error.png"}
      [] p = "before_submit" -> {"before_submit.png"}
      [] p = "wait" -> {IndexedShot("after_submit_", idx)}
      [] p = "seller_err" -> {IndexedShot("seller_error_", idx)}
      [] p = "final" -> {"final_error.png"}
      [] OTHER -> {}

\* C27 (as stated): the downloader writes no diagnostic file under a name
\* other than the listed ones.
C27_OnlyListedNames ==
    shots \subseteq ListedNames

\* C27 (amended): the downloader writes no diagnostic file under a name other
\* than the listed ones, seller_dropdown_error.png (the handler of seller
\* discovery) and export_format_error.png (the handler of the export format),
\* and each name is written only at its own step or branch.
C27_OnlyKnownNames ==
    /\ [](shots \subseteq ListedNames \cup {"seller_dropdown_error.png",
                                           "export_format_error.png"})
    /\ [][shots' \ shots \subseteq WrittenAt(pc)]_vars

C27_Witness ==
    /\ {"seller_dropdown_error.png", "export_format_error.png"} \subseteq shots
    /\ pc = "done"
    /\ result = "True"

\* C28: tab_error.png and page_source.html come from the fatal handler of tab
\* navigation alone; once tab_error.png is captured the run is in that
\* handler or past it, with after_tab_click.png never captured, no filter
\* step and no seller attempted, and no True returned.
C28_TabErrorIsFatal ==
    /\ []("page_source.html" \in shots => "tab_error.png" \in shots)
    /\ []("tab_error.png" \in shots =>
             /\ pc \in {"final", "done"}
             /\ "after_tab_click.png" \notin shots
             /\ idx = 0 /\ cur = FreshIter /\ sellers = <<>>
             /\ result # "True")
    /\ [][shots' \ shots \subseteq {"tab_error.png", "page_source.html"} =>
             shots' = shots \/ pc = "tab_fatal"]_vars

C28_Witness ==
    /\ {"tab_error.png", "page_source.html", "final_error.png"} \subseteq shots
    /\ pc = "done"
    /\ result = "False"
    /\ raised = "Unable to navigate to Filing Inquiries tab"

\* C29 (as stated): when the By selector is found, "BA and HUB" is not among
\* its options and the list is not empty, a single option included, then
\* (no command failing for another reason) the option at list position 1 is
\* selected where there is one and the step ends on its normal path, with
\* after_by_selection.png and without by_dropdown_error.png.
C29_FallbackSelectsPositionOne ==
    /\ pc # "by"
    /\ faults = 0
    /\ by_dropdown # "None"
    /\ byOpts # <<>>
    /\ "BA and HUB" \notin Range(byOpts)
    => /\ pc = "period"
       /\ "after_by_selection.png" \in shots
       /\ "by_dropdown_error.png" \notin shots
       /\ Len(byOpts) >= 2 => bySelected = 2

InIteration == pc \in {"submit_a", "submit_b", "submit_c", "submit_d", "wait",
                       "seller_err"}

\* The sellers the loop has taken from the list so far.
Visited == idx + (IF InIteration THEN 1 ELSE 0)

\* C30: the loop takes the sellers in list order, each once: the index moves
\* one place at a time over a list that no longer changes, the success
\* counter grows by one at most per seller and only when that seller's
\* download wait returned True, and 0 <= successes <= visited <= N throughout.
C30_LoopConsumesListOnce ==
    /\ [](/\ 0 <= success_count
          /\ success_count <= idx
          /\ success_count <= downloads
          /\ idx <= Visited
          /\ Visited <= Len(sellers))
    /\ [][/\ idx' \in {idx, idx + 1}
          /\ success_count' \in {success_count, success_count + 1}
          /\ success_count' # success_count =>
                pc = "wait" /\ cur'.wait = "True" /\ idx' = idx + 1
          /\ StepOrder(pc) = 12 => sellers' = sellers]_vars

C30_Witness ==
    /\ pc = "done"
    /\ Len(sellers) = 2
    /\ idx = 2
    /\ success_count = 1
    /\ cur.wait = "False"

\* C31 (as stated): when the poll for the seller selector returned absent,
\* the seller list is the requested name, or "Default Seller" for "all";
\* every selection fails, nothing is clicked or submitted, no download wait
\* is made, and the operation returns False.
C31_AbsentPollReturnsFalse ==
    poll = "absent" =>
        /\ sellers = IF seller = "all" THEN <<"Default Seller">> ELSE <<seller>>
        /\ seller_dropdown = "None"
        /\ cur.selected # "ok"
        /\ ~Submitted
        /\ cur.wait = "none"
        /\ downloads = 0 /\ success_count = 0
        /\ pc = "done" => result = "False"

\* The same with the return left out: all of it but the False return holds.
C31_AbsentPollSelectsNothing ==
    poll = "absent" =>
        /\ sellers = IF seller = "all" THEN <<"Default Seller">> ELSE <<seller>>
        /\ seller_dropdown = "None"
        /\ cur.selected # "ok"
        /\ ~Submitted
        /\ cur.wait = "none"
        /\ downloads = 0 /\ success_count = 0
        /\ pc = "done" => result \in {"False", "raised"}

\* The files the downloader writes itself.
IsOwn(f) == f[Len(f)] \in {".png", ".html"}

InWindow == wpc \in {"test", "poll", "sleep"}

\* C32: a file the downloader wrote itself is never among the new files of a
\* download wait: it is written outside every wait window, and each wait's
\* before-snapshot holds all of them that are in the directory.
C32_OwnFilesNeverCounted ==
    /\ [](\A f \in new_files : ~IsOwn(f))
    /\ [](InWindow => \A f \in dir : IsOwn(f) => f \in before_download)
    /\ [][\A f \in dir' \ dir : IsOwn(f) => ~InWindow /\ wpc # "start"]_vars

C32_Witness ==
    /\ idx = 1
    /\ wpc = "done"
    /\ wresult = "True"
    /\ ShotFile("after_submit_", 0) \in before_download \cap dir
    /\ new_files # {}

\* The operation or the polling loop that was started has ended.
Terminated ==
    \/ pc = "done"
    \/ wpc = "done"
    \/ apc = "done"
    \/ ppc = "done"

\* A polling loop stands at the start of a pass of its body.
Polling == wpc = "poll" \/ apc = "poll" \/ ppc = "poll"

QuarterOf(month) == (month - 1) \div 3 + 1

\* C34: in --default mode the report period derived from the generated start
\* date and end date is the label of the quarter and the year that hold today.
C34_DefaultPeriodIsCurrentQuarter ==
    default_flag /\ report_period # NoPeriod =>
        report_period = [quarter |-> QuarterNames[QuarterOf(today.month)],
                         year |-> today.year]

\* C34 witness: --default on the last day of a quarter.
C34_Witness ==
    /\ default_flag
    /\ today.month = 3 /\ today.day = 31
    /\ start_date = <<1, 1, today.year>>
    /\ report_period = [quarter |-> "Q1, Jan-Mar", year |-> today.year]

====
